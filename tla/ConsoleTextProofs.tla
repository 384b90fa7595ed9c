------------------------- MODULE ConsoleTextProofs -------------------------
(***************************************************************************)
(* The texts of the console: what is printed of a message is what its      *)
(* format means, for every message, every number of a long and any         *)
(* interrupts.                                                             *)
(***************************************************************************)
EXTENDS ConsoleText, TLAPS, SequenceTheorems, FiniteSetTheorems, WellFoundedInduction

\* Sets of numbers have a first.
LEMMA LeastOf ==
  ASSUME NEW T, T \subseteq Nat, T # {}
  PROVE  \E x \in T : \A y \in T : x <= y
<1>1. PICK x \in T : \A y \in T : <<y, x>> \notin OpToRel(<, Nat)
  BY NatLessThanWellFounded, WFMin, Zenon
<1>2. \A y \in T : ~(y < x)
  BY <1>1, Zenon DEF OpToRel
<1> QED
  BY <1>2

\* A number is made of whole parts and a remainder, in one way.
LEMMA Parts ==
  ASSUME NEW n \in Nat, NEW d \in Nat \ {0}
  PROVE  /\ n \div d \in Nat /\ n % d \in 0 .. d - 1
         /\ n = (n \div d) * d + (n % d)
OBVIOUS

\* And the parts of a product with a remainder are these.
LEMMA OneWay ==
  ASSUME NEW q \in Nat, NEW d \in Nat \ {0}, NEW r \in 0 .. d - 1
  PROVE  (q * d + r) % d = r /\ (q * d + r) \div d = q
<1> DEFINE n == q * d + r
<1>1. n \in Nat
  OBVIOUS
<1>2. PICK p \in Nat, s \in 0 .. d - 1 : p = n \div d /\ s = n % d /\ n = p * d + s
  BY <1>1, Parts
<1>3. (p - q) * d = r - s
  BY <1>2, SMTT(30)
<1>4. p = q
  <2>1. CASE p > q
    <3>1. (p - q) * d >= d
      BY <2>1, SMTT(30)
    <3> QED
      BY <3>1, <1>3
  <2>2. CASE q > p
    <3>1. (q - p) * d >= d
      BY <2>2, SMTT(30)
    <3>2. (q - p) * d = s - r
      BY <1>2, SMTT(30)
    <3> QED
      BY <3>1, <3>2
  <2> QED
    BY <2>1, <2>2
<1> QED
  BY <1>2, <1>3, <1>4

\* Division takes a number down.
LEMMA Shrinks ==
  ASSUME NEW n \in Nat, NEW d \in Nat, d >= 2, n # 0
  PROVE  n \div d \in Nat /\ n \div d < n
<1>1. PICK q \in Int, r \in 0 .. d - 1 : n = q * d + r /\ q = n \div d
  <2>1. n \div d \in Int /\ n % d \in 0 .. d - 1 /\ n = (n \div d) * d + (n % d)
    OBVIOUS
  <2> QED
    BY <2>1
<1>2. q >= 0
  <2> SUFFICES ASSUME q < 0 PROVE FALSE
    OBVIOUS
  <2>1. q * d <= -d
    BY SMTT(30)
  <2> QED
    BY <2>1, <1>1
<1>3. q * d >= 2 * q
  BY <1>2, SMTT(30)
<1> QED
  BY <1>1, <1>2, <1>3

\* A recursion along a rank r that falls: b at its ends B, and from nx[x] to x
\* by h[x].
Falls(D, R, r, nx, h, B, b) ==
  /\ r \in [D -> Nat] /\ R # {}
  /\ \A x \in D : x \in B => b[x] \in R
  /\ \A x \in D : x \notin B => nx[x] \in D /\ r[nx[x]] < r[x] /\ \A y \in R : h[x][y] \in R

\* It defines a function.
LEMMA Recursion ==
  ASSUME NEW D, NEW R, NEW r, NEW nx, NEW h, NEW B, NEW b, Falls(D, R, r, nx, h, B, b)
  PROVE  \E f \in [D -> R] : \A x \in D : f[x] = IF x \in B THEN b[x] ELSE h[x][f[nx[x]]]
<1> USE DEF Falls
<1> PICK e \in R : TRUE
  OBVIOUS
<1> DEFINE Step(f, x) == IF x \in B THEN b[x] ELSE h[x][f[nx[x]]]
           Upto_(f, m) == f \in [D -> R] /\ \A x \in D : r[x] < m => f[x] = Step(f, x)
<1>1. ASSUME NEW f \in [D -> R], NEW x \in D PROVE Step(f, x) \in R
  BY <1>1
<1>2. ASSUME NEW f, NEW g, NEW m \in Nat, NEW n \in Nat, Upto_(f, m), Upto_(g, n),
             NEW x \in D, r[x] < m, r[x] < n
      PROVE  f[x] = g[x]
  <2> DEFINE T == {k \in Nat : \E y \in D : r[y] = k /\ k < m /\ k < n /\ f[y] # g[y]}
  <2> SUFFICES ASSUME T # {} PROVE FALSE
    BY <1>2
  <2>1. PICK k \in T : \A j \in T : k <= j
    <3>1. T \subseteq Nat
      OBVIOUS
    <3> HIDE DEF T
    <3> QED
      BY <3>1, LeastOf
  <2>2. PICK y \in D : r[y] = k /\ k < m /\ k < n /\ f[y] # g[y]
    OBVIOUS
  <2>3. f[y] = Step(f, y) /\ g[y] = Step(g, y)
    BY <1>2, <2>2
  <2>4. y \notin B
    BY <2>2, <2>3
  <2>5. nx[y] \in D /\ r[nx[y]] < k /\ r[nx[y]] \in Nat /\ k \in Nat
    BY <2>2, <2>4
  <2>6. r[nx[y]] \notin T
    <3> HIDE DEF T
    <3> QED
      BY <2>1, <2>5
  <2>7. f[nx[y]] = g[nx[y]]
    BY <2>2, <2>5, <2>6
  <2> QED
    BY <2>2, <2>3, <2>4, <2>7
<1>3. ASSUME NEW m \in Nat PROVE \E f : Upto_(f, m)
  <2> DEFINE T == {n \in Nat : ~\E f : Upto_(f, n)}
  <2> SUFFICES ASSUME T # {} PROVE FALSE
    BY Zenon
  <2>1. PICK n \in T : \A j \in T : n <= j
    <3>1. T \subseteq Nat
      OBVIOUS
    <3> HIDE DEF T
    <3> QED
      BY <3>1, LeastOf
  <2>2. n \in Nat /\ ~\E f : Upto_(f, n)
    BY Zenon
  <2>3. CASE n = 0
    <3>1. Upto_([x \in D |-> e], 0)
      OBVIOUS
    <3> QED
      BY <2>2, <2>3, <3>1
  <2>4. CASE n # 0
    <3>1. n - 1 \in Nat /\ n - 1 < n
      BY <2>2, <2>4
    <3>2. n - 1 \notin T
      <4> HIDE DEF T
      <4> QED
        BY <2>1, <2>2, <3>1
    <3>3. PICK f : Upto_(f, n - 1)
      BY <3>1, <3>2, Zenon
    <3> DEFINE g == [x \in D |-> Step(f, x)]
    <3>4. g \in [D -> R]
      <4>1. \A x \in D : Step(f, x) \in R
        BY <1>1, <3>3, SMTT(30)
      <4> HIDE DEF Step
      <4> QED
        BY <4>1
    <3>5. ASSUME NEW x \in D, r[x] < n PROVE g[x] = Step(g, x)
      <4>1. CASE x \in B
        BY <4>1
      <4>2. CASE x \notin B
        <5>1. nx[x] \in D /\ r[nx[x]] < n - 1
          <6>1. nx[x] \in D /\ r[nx[x]] < r[x]
            BY <4>2
          <6>2. r[nx[x]] \in Nat /\ r[x] \in Nat
            BY <6>1
          <6> QED
            BY <2>2, <3>5, <6>1, <6>2
        <5>2. f[nx[x]] = g[nx[x]]
          BY <3>3, <5>1
        <5> QED
          BY <4>2, <5>2, Zenon
      <4> QED
        BY <4>1, <4>2, Zenon
    <3>6. Upto_(g, n)
      <4> HIDE DEF g, Step
      <4> QED
        BY <3>4, <3>5
    <3> QED
      BY <2>2, <3>6, Zenon
  <2> QED
    BY <2>3, <2>4
<1> DEFINE F(m) == CHOOSE f : Upto_(f, m)
           f == [x \in D |-> F(r[x] + 1)[x]]
<1>4. \A m \in Nat : Upto_(F(m), m)
  <2> HIDE DEF Upto_
  <2> QED
    BY <1>3
<1>5. ASSUME NEW x \in D, NEW m \in Nat, r[x] < m PROVE f[x] = F(m)[x]
  <2>1. r[x] + 1 \in Nat /\ r[x] < r[x] + 1
    OBVIOUS
  <2> HIDE DEF F, Upto_
  <2> QED
    BY <1>2, <1>4, <1>5, <2>1
<1>6. ASSUME NEW x \in D PROVE f[x] \in R
  <2>1. r[x] + 1 \in Nat
    OBVIOUS
  <2>2. F(r[x] + 1) \in [D -> R]
    <3> HIDE DEF F
    <3> QED
      BY <1>4, <2>1, SMTT(30)
  <2> HIDE DEF F
  <2> QED
    BY <2>2
<1>7. ASSUME NEW x \in D PROVE f[x] = Step(f, x)
  <2>1. r[x] + 1 \in Nat /\ r[x] < r[x] + 1
    OBVIOUS
  <2>2. F(r[x] + 1)[x] = Step(F(r[x] + 1), x)
    <3> HIDE DEF F
    <3> QED
      BY <1>4, <2>1
  <2>3. f[x] = F(r[x] + 1)[x]
    BY <1>5, <2>1
  <2>4. CASE x \in B
    <3> HIDE DEF F, f
    <3> QED
      BY <2>2, <2>3, <2>4
  <2>5. CASE x \notin B
    <3>1. nx[x] \in D /\ r[nx[x]] < r[x] + 1
      <4>1. nx[x] \in D /\ r[nx[x]] < r[x]
        BY <2>5
      <4>2. r[nx[x]] \in Nat /\ r[x] \in Nat
        BY <4>1
      <4> QED
        BY <4>1, <4>2
    <3>2. f[nx[x]] = F(r[x] + 1)[nx[x]]
      <4> HIDE DEF f, F
      <4> QED
        BY <1>5, <2>1, <3>1
    <3> HIDE DEF F, f
    <3> QED
      BY <2>2, <2>3, <2>5, <3>2
  <2> QED
    BY <2>4, <2>5, Zenon
<1>8. f \in [D -> R]
  <2>1. f = [x \in D |-> f[x]]
    OBVIOUS
  <2> HIDE DEF f
  <2> QED
    BY <1>6, <2>1
<1> HIDE DEF f
<1> QED
  BY <1>7, <1>8

\* Powers are products.
LEMMA PowerIs ==
  ASSUME NEW b \in Nat
  PROVE  /\ Power(b, 0) = 1
         /\ \A n \in Nat : Power(b, n) \in Nat /\ Power(b, n + 1) = b * Power(b, n)
<1> DEFINE p == CHOOSE f : f = [k \in Nat |-> IF k = 0 THEN 1 ELSE b * f[k - 1]]
           r == [k \in Nat |-> k]
           nx == [k \in Nat |-> k - 1]
           h == [x \in Nat |-> [y \in Nat |-> b * y]]
           c == [k \in Nat |-> 1]
<1>1. \A n \in Nat : Power(b, n) = p[n]
  BY DEF Power
<1>2. r \in [Nat -> Nat] /\ \A x \in Nat : x \in {0} => c[x] \in Nat
  OBVIOUS
<1>3. ASSUME NEW x \in Nat, x \notin {0}
      PROVE  nx[x] \in Nat /\ r[nx[x]] < r[x] /\ \A y \in Nat : h[x][y] = b * y
  <2>1. x - 1 \in Nat /\ x - 1 < x
    BY <1>3
  <2> QED
    BY <2>1
<1>4. \A x \in Nat : x \notin {0} => /\ nx[x] \in Nat /\ r[nx[x]] < r[x]
                                    /\ \A y \in Nat : h[x][y] \in Nat
  <2>1. \A y \in Nat : b * y \in Nat
    OBVIOUS
  <2> HIDE DEF r, nx, h
  <2> QED
    BY <1>3, <2>1
<1>5. Falls(Nat, Nat, r, nx, h, {0}, c)
  <2> HIDE DEF r, nx, h, c
  <2> QED
    BY <1>2, <1>4, 0 \in Nat DEF Falls
<1>6. PICK f \in [Nat -> Nat] : \A x \in Nat : f[x] =
        IF x \in {0} THEN c[x] ELSE h[x][f[nx[x]]]
  <2> HIDE DEF r, nx, h, c
  <2> QED
    BY <1>5, Recursion
<1>7. ASSUME NEW x \in Nat PROVE f[x] = IF x = 0 THEN 1 ELSE b * f[x - 1]
  <2>1. CASE x = 0
    BY <1>6, <2>1
  <2>2. CASE x # 0
    <3>1. f[x] = h[x][f[x - 1]] /\ x - 1 \in Nat
      BY <1>6, <2>2
    <3> HIDE DEF h
    <3> QED
      BY <1>3, <2>2, <3>1
  <2> QED
    BY <2>1, <2>2
<1>8. f = [k \in Nat |-> IF k = 0 THEN 1 ELSE b * f[k - 1]]
  BY <1>7
<1>9. p = [k \in Nat |-> IF k = 0 THEN 1 ELSE b * p[k - 1]]
  BY <1>8
<1> HIDE DEF p
<1>10. p[0] = 1 /\ \A n \in Nat : p[n + 1] = b * p[n]
  BY <1>9
<1>11. \A n \in Nat : p[n] \in Nat
  <2> DEFINE T == {m \in Nat : p[m] \notin Nat}
  <2> SUFFICES ASSUME T # {} PROVE FALSE
    OBVIOUS
  <2>1. PICK m \in T : \A j \in T : m <= j
    <3>1. T \subseteq Nat
      OBVIOUS
    <3> HIDE DEF T
    <3> QED
      BY <3>1, LeastOf
  <2>2. m \in Nat /\ p[m] \notin Nat /\ m # 0
    BY <1>10
  <2>3. m - 1 \in Nat /\ m - 1 < m
    BY <2>2
  <2>4. m - 1 \notin T
    <3> HIDE DEF T
    <3> QED
      BY <2>1, <2>2, <2>3
  <2> QED
    BY <1>9, <2>2, <2>3, <2>4
<1> QED
  BY <1>1, <1>10, <1>11

\* What holds for zero and is handed on holds for all numbers.
LEMMA Climbs ==
  ASSUME NEW S, 0 \in S, \A n \in Nat : n \in S => n + 1 \in S
  PROVE  \A n \in Nat : n \in S
<1> DEFINE T == {n \in Nat : n \notin S}
<1> SUFFICES ASSUME T # {} PROVE FALSE
  OBVIOUS
<1>1. PICK n \in T : \A j \in T : n <= j
  <2>1. T \subseteq Nat
    OBVIOUS
  <2> HIDE DEF T
  <2> QED
    BY <2>1, LeastOf
<1>2. n \in Nat /\ n \notin S /\ n # 0
  OBVIOUS
<1>3. n - 1 \in Nat /\ n - 1 < n /\ (n - 1) + 1 = n
  BY <1>2
<1>4. n - 1 \notin T
  <2> HIDE DEF T
  <2> QED
    BY <1>1, <1>2, <1>3
<1> QED
  BY <1>2, <1>3, <1>4

\* Powers are positive, and add up in their exponents.
LEMMA PowersAdd ==
  ASSUME NEW b \in Nat \ {0}
  PROVE  /\ \A n \in Nat : Power(b, n) \in Nat \ {0}
         /\ \A m, n \in Nat : Power(b, m + n) = Power(b, m) * Power(b, n)
<1>1. \A n \in Nat : Power(b, n) \in Nat \ {0}
  <2> DEFINE S == {n \in Nat : Power(b, n) # 0}
  <2>1. 0 \in S
    BY PowerIs
  <2>2. ASSUME NEW n \in Nat, n \in S PROVE n + 1 \in S
    <3>1. Power(b, n) \in Nat /\ Power(b, n) # 0 /\ Power(b, n + 1) = b * Power(b, n)
      BY <2>2, PowerIs
    <3>2. \A x \in Nat : x # 0 => b * x # 0
      OBVIOUS
    <3> QED
      BY <3>1, <3>2
  <2> HIDE DEF S
  <2>3. \A n \in Nat : n \in S
    BY <2>1, <2>2, Climbs
  <2> QED
    BY <2>3, PowerIs DEF S
<1>2. ASSUME NEW m \in Nat PROVE \A n \in Nat : Power(b, m + n) = Power(b, m) * Power(b, n)
  <2> DEFINE S == {n \in Nat : Power(b, m + n) = Power(b, m) * Power(b, n)}
  <2>1. 0 \in S
    BY PowerIs
  <2>2. ASSUME NEW n \in Nat, n \in S PROVE n + 1 \in S
    <3>1. PICK x \in Nat, y \in Nat : x = Power(b, m) /\ y = Power(b, n)
      BY PowerIs
    <3>2. Power(b, m + n) = x * y
      BY <2>2, <3>1
    <3>3. Power(b, n + 1) = b * y
      BY <3>1, PowerIs
    <3>4. m + n \in Nat /\ m + (n + 1) = (m + n) + 1
      OBVIOUS
    <3>5. Power(b, m + (n + 1)) = b * (x * y)
      BY <3>2, <3>4, PowerIs
    <3>6. b * (x * y) = x * (b * y)
      OBVIOUS
    <3> QED
      BY <3>1, <3>3, <3>5, <3>6
  <2> HIDE DEF S
  <2>3. \A n \in Nat : n \in S
    BY <2>1, <2>2, Climbs
  <2> QED
    BY <2>3 DEF S
<1> QED
  BY <1>1, <1>2

\* A larger exponent makes no smaller power.
LEMMA PowersGrow ==
  ASSUME NEW b \in Nat \ {0}, NEW m \in Nat, NEW n \in Nat, m <= n
  PROVE  Power(b, m) <= Power(b, n)
<1>1. PICK k \in Nat : n = m + k
  <2>1. n - m \in Nat /\ n = m + (n - m)
    OBVIOUS
  <2> QED
    BY <2>1
<1>2. PICK x \in Nat, y \in Nat \ {0} : x = Power(b, m) /\ y = Power(b, k)
  BY PowersAdd
<1>3. Power(b, n) = x * y
  BY <1>1, <1>2, PowersAdd
<1>4. x <= x * y
  <2>1. y >= 1
    OBVIOUS
  <2> QED
    BY <2>1, SMTT(30)
<1> QED
  BY <1>2, <1>3, <1>4

\* The bases numbers are printed in.
Bases == {8, 10, 16}

\* Their powers are not below those of two; those of sixteen are every fourth.
LEMMA PowersOfBases ==
  /\ \A b \in Bases, n \in Nat : Power(2, n) <= Power(b, n)
  /\ \A n \in Nat : Power(2, 4 * n) = Power(16, n)
<1>1. ASSUME NEW b \in Bases PROVE \A n \in Nat : Power(2, n) <= Power(b, n)
  <2> DEFINE S == {n \in Nat : Power(2, n) <= Power(b, n)}
  <2>1. b \in Nat /\ b >= 2 /\ 2 \in Nat
    BY DEF Bases
  <2>2. 0 \in S
    BY <2>1, PowerIs
  <2>3. ASSUME NEW n \in Nat, n \in S PROVE n + 1 \in S
    <3>1. PICK x \in Nat, y \in Nat : x = Power(2, n) /\ y = Power(b, n)
      BY <2>1, PowerIs
    <3>2. Power(2, n + 1) = 2 * x /\ Power(b, n + 1) = b * y
      BY <2>1, <3>1, PowerIs
    <3>3. x <= y
      BY <2>3, <3>1
    <3>4. 2 * x <= b * y
      BY <3>3 DEF Bases
    <3> QED
      BY <3>2, <3>4
  <2> HIDE DEF S
  <2>4. \A n \in Nat : n \in S
    BY <2>2, <2>3, Climbs
  <2> QED
    BY <2>4 DEF S
<1>2. \A n \in Nat : Power(2, 4 * n) = Power(16, n)
  <2> DEFINE S == {n \in Nat : Power(2, 4 * n) = Power(16, n)}
  <2>1. 2 \in Nat /\ 16 \in Nat
    OBVIOUS
  <2>2. 0 \in S
    <3>1. 4 * 0 = 0
      OBVIOUS
    <3>2. Power(2, 0) = 1 /\ Power(16, 0) = 1
      BY <2>1, PowerIs
    <3> QED
      BY <3>1, <3>2
  <2>3. ASSUME NEW n \in Nat, n \in S PROVE n + 1 \in S
    <3>1. PICK k \in Nat : k = 4 * n
      OBVIOUS
    <3>2. PICK x \in Nat : x = Power(2, k) /\ x = Power(16, n)
      BY <2>1, <2>3, <3>1, PowerIs
    <3>3. Power(2, k + 1) = 2 * x
      BY <2>1, <3>2, PowerIs
    <3>4. Power(2, (k + 1) + 1) = 2 * (2 * x)
      BY <2>1, <3>3, PowerIs
    <3>5. Power(2, ((k + 1) + 1) + 1) = 2 * (2 * (2 * x))
      <4>1. (k + 1) + 1 \in Nat
        OBVIOUS
      <4> QED
        BY <2>1, <3>4, <4>1, PowerIs
    <3>6. Power(2, (((k + 1) + 1) + 1) + 1) = 2 * (2 * (2 * (2 * x)))
      <4>1. ((k + 1) + 1) + 1 \in Nat
        OBVIOUS
      <4> QED
        BY <2>1, <3>5, <4>1, PowerIs
    <3>7. Power(16, n + 1) = 16 * x
      BY <2>1, <3>2, PowerIs
    <3>8. (((k + 1) + 1) + 1) + 1 = 4 * (n + 1) /\ 2 * (2 * (2 * (2 * x))) = 16 * x
      BY <3>1
    <3> QED
      BY <3>6, <3>7, <3>8
  <2> HIDE DEF S
  <2>4. \A n \in Nat : n \in S
    BY <2>2, <2>3, Climbs
  <2> QED
    BY <2>4 DEF S
<1> QED
  BY <1>1, <1>2

\* Whole parts do not change a remainder.
LEMMA SameRest ==
  ASSUME NEW x \in Nat, NEW b \in Nat \ {0}, NEW e \in Nat
  PROVE  (x * b + e) % b = e % b
<1>1. PICK q \in Nat, t \in 0 .. b - 1 : q = e \div b /\ t = e % b /\ e = q * b + t
  BY Parts
<1>2. x * b + e = (x + q) * b + t /\ x + q \in Nat
  BY <1>1, SMTT(30)
<1>3. ((x + q) * b + t) % b = t
  BY <1>2, OneWay
<1> QED
  BY <1>1, <1>2, <1>3

\* A digit below a place stays when what is above is taken off.
LEMMA DigitsBelow ==
  ASSUME NEW b \in Nat \ {0}, NEW m \in Nat, NEW j \in Nat, j < m, NEW v \in Nat
  PROVE  ((v % Power(b, m)) \div Power(b, j)) % b = (v \div Power(b, j)) % b
<1>1. PICK w \in Nat \ {0}, c \in Nat \ {0}, p \in Nat \ {0} :
        w = Power(b, j) /\ c = Power(b, m - j - 1) /\ p = Power(b, m) /\ p = w * (b * c)
  <2>1. m - j - 1 \in Nat /\ m - j \in Nat /\ (m - j - 1) + 1 = m - j /\ j + (m - j) = m
    OBVIOUS
  <2>2. Power(b, m - j) = b * Power(b, m - j - 1)
    BY <2>1, PowerIs
  <2>3. Power(b, m) = Power(b, j) * Power(b, m - j)
    BY <2>1, PowersAdd
  <2>4. Power(b, j) \in Nat \ {0} /\ Power(b, m - j - 1) \in Nat \ {0} /\
          Power(b, m) \in Nat \ {0}
    BY <2>1, PowersAdd
  <2> QED
    BY <2>2, <2>3, <2>4
<1>2. PICK a \in Nat, r \in Nat : r = v % p /\ v = a * p + r
  <2>1. v \div p \in Nat /\ v % p \in 0 .. p - 1 /\ v = (v \div p) * p + (v % p)
    BY Parts
  <2>2. PICK a \in Nat, r \in Nat : a = v \div p /\ r = v % p
    BY <2>1
  <2>3. v = a * p + r
    BY <2>1, <2>2
  <2> QED
    BY <2>2, <2>3
<1>3. PICK e \in Nat, s \in 0 .. w - 1 : e = r \div w /\ r = e * w + s
  BY Parts
<1>4. v = (a * c * b + e) * w + s /\ a * c * b + e \in Nat
  <2>1. a * p = (a * c * b) * w
    <3>1. a * (w * (b * c)) = (a * c * b) * w
      BY SMTT(30)
    <3> QED
      BY <1>1, <3>1
  <2>2. PICK g \in Nat : g = a * c * b
    OBVIOUS
  <2>3. PICK x \in Nat, y \in Nat : x = g * w /\ y = e * w
    OBVIOUS
  <2>4. v = x + y + s
    BY <1>2, <1>3, <2>1, <2>2, <2>3
  <2>5. x + y = (g + e) * w
    BY <2>3
  <2>6. v = (g + e) * w + s
    BY <2>4, <2>5
  <2> QED
    BY <2>2, <2>6
<1>5. v \div w = a * c * b + e
  BY <1>4, OneWay
<1>6. (a * c * b + e) % b = e % b
  BY SameRest, a * c \in Nat
<1> QED
  BY <1>1, <1>2, <1>3, <1>5, <1>6

\* Digits are counted by dividing.
LEMMA CountsByDividing ==
  ASSUME NEW base \in Nat, base >= 2
  PROVE  \A v \in Nat :
           /\ DigitCount(v, base) \in Nat \ {0}
           /\ v < base => DigitCount(v, base) = 1
           /\ v >= base => DigitCount(v, base) = 1 + DigitCount(v \div base, base)
<1> DEFINE p == CHOOSE f : f =
    [shrink \in Nat |-> IF shrink < base THEN 1 ELSE 1 + f[shrink \div base]]
           r == [k \in Nat |-> k]
           nx == [k \in Nat |-> k \div base]
           h == [x \in Nat |-> [y \in Nat \ {0} |-> 1 + y]]
           c1 == [k \in Nat |-> 1]
<1>1. \A n \in Nat : DigitCount(n, base) = p[n]
  BY DEF DigitCount
<1>2. r \in [Nat -> Nat] /\ \A x \in Nat : x \in 0 .. base - 1 => c1[x] \in Nat \ {0}
  OBVIOUS
<1>3. ASSUME NEW x \in Nat, x \notin 0 .. base - 1
      PROVE  nx[x] \in Nat /\ r[nx[x]] < r[x] /\ \A y \in Nat \ {0} : h[x][y] \in Nat \ {0}
  <2>1. x # 0
    BY <1>3
  <2>2. x \div base \in Nat /\ x \div base < x
    BY <2>1, Shrinks
  <2>3. \A y \in Nat \ {0} : h[x][y] = 1 + y
    OBVIOUS
  <2> QED
    BY <2>2, <2>3
<1>4. Falls(Nat, Nat \ {0}, r, nx, h, 0 .. base - 1, c1)
  <2> Nat \ {0} # {}
    BY 1 \in Nat \ {0}
  <2> HIDE DEF r, nx, h, c1
  <2> QED
    BY <1>2, <1>3 DEF Falls
<1>5. PICK f \in [Nat -> Nat \ {0}] : \A x \in Nat : f[x] =
        IF x \in 0 .. base - 1 THEN c1[x] ELSE h[x][f[nx[x]]]
  <2> HIDE DEF r, nx, h, c1
  <2> QED
    BY <1>4, Recursion
<1>6. ASSUME NEW x \in Nat PROVE f[x] = IF x < base THEN 1 ELSE 1 + f[x \div base]
  <2>1. CASE x < base
    <3>1. x \in 0 .. base - 1
      BY <2>1
    <3>2. f[x] = c1[x]
      <4> HIDE DEF c1, h, nx
      <4> QED
        BY <1>5, <3>1
    <3> QED
      BY <2>1, <3>2
  <2>2. CASE ~(x < base)
    <3>1. x \notin 0 .. base - 1 /\ x \div base \in Nat
      BY <1>3, <2>2
    <3>2. f[x] = h[x][f[nx[x]]]
      <4> HIDE DEF h, nx
      <4> QED
        BY <1>5, <3>1
    <3>3. f[x \div base] \in Nat \ {0}
      BY <1>5, <3>1
    <3> QED
      BY <2>2, <3>2, <3>3
  <2> QED
    BY <2>1, <2>2
<1>7. p = [shrink \in Nat |-> IF shrink < base THEN 1 ELSE 1 + p[shrink \div base]]
  <2>1. f = [shrink \in Nat |-> IF shrink < base THEN 1 ELSE 1 + f[shrink \div base]]
    BY <1>6
  <2> QED
    BY <2>1
<1>8. ASSUME NEW v \in Nat PROVE v >= base => v \div base \in Nat /\ v \div base < v
  BY Shrinks
<1> HIDE DEF p
<1>9. \A v \in Nat : p[v] \in Nat \ {0}
  <2> DEFINE T == {m \in Nat : p[m] \notin Nat \ {0}}
  <2> SUFFICES ASSUME T # {} PROVE FALSE
    OBVIOUS
  <2>1. PICK m \in T : \A j \in T : m <= j
    <3>1. T \subseteq Nat
      OBVIOUS
    <3> HIDE DEF T
    <3> QED
      BY <3>1, LeastOf
  <2>2. m \in Nat /\ p[m] \notin Nat \ {0} /\ m >= base
    BY <1>7
  <2>3. m \div base \in Nat /\ m \div base < m
    BY <1>8, <2>2
  <2>4. m \div base \notin T
    <3> HIDE DEF T
    <3> QED
      BY <2>1, <2>2, <2>3
  <2> QED
    BY <1>7, <2>2, <2>3, <2>4
<1>10. \A v \in Nat : (v < base => p[v] = 1) /\ (v >= base => p[v] = 1 + p[v \div base])
  BY <1>7
<1> QED
  BY <1>1, <1>8, <1>9, <1>10

\* So many digits a number has.
Long(v, base, k) == v < Power(base, k) /\ (k > 1 => Power(base, k - 1) <= v)

\* The count is that of the digits.
LEMMA CountIsLong ==
  ASSUME NEW base \in Bases
  PROVE  \A v \in Nat : Long(v, base, DigitCount(v, base))
<1> DEFINE T == {v \in Nat : ~Long(v, base, DigitCount(v, base))}
<1> SUFFICES ASSUME T # {} PROVE FALSE
  OBVIOUS
<1>1. base \in Nat /\ base >= 2 /\ base # 0
  BY DEF Bases
<1>2. PICK v \in T : \A j \in T : v <= j
  <2>1. T \subseteq Nat
    OBVIOUS
  <2> HIDE DEF T
  <2> QED
    BY <2>1, LeastOf
<1>3. v \in Nat /\ ~Long(v, base, DigitCount(v, base))
  OBVIOUS
<1>4. CASE v < base
  <2>1. DigitCount(v, base) = 1
    BY <1>1, <1>3, <1>4, CountsByDividing
  <2>2. Power(base, 0 + 1) = base * 1
    BY <1>1, PowerIs
  <2>3. Power(base, 1) = base
    BY <1>1, <2>2
  <2> QED
    BY <1>3, <1>4, <2>1, <2>3 DEF Long
<1>5. CASE v >= base
  <2>1. PICK w \in Nat : w = v \div base /\ w < v
    BY <1>1, <1>3, <1>5, Shrinks
  <2>2. PICK k \in Nat \ {0} : k = DigitCount(w, base) /\ DigitCount(v, base) = 1 + k
    BY <1>1, <1>3, <1>5, <2>1, CountsByDividing
  <2>3. Long(w, base, k)
    <3>1. w \notin T
      <4> HIDE DEF T
      <4> QED
        BY <1>2, <1>3, <2>1
    <3> QED
      BY <2>1, <2>2, <3>1
  <2>4. PICK p \in Nat : p = Power(base, k) /\ Power(base, k + 1) = base * p
    BY <1>1, PowerIs
  <2>5. v < base * p
    <3>1. w < p
      BY <2>3, <2>4 DEF Long
    <3> QED
      BY <1>3, <2>1, <3>1 DEF Bases
  <2>6. p <= v
    <3>1. CASE k = 1
      <4>1. Power(base, 0 + 1) = base * 1
        BY <1>1, PowerIs
      <4>2. p = base
        BY <1>1, <2>4, <3>1, <4>1
      <4> QED
        BY <1>5, <4>2
    <3>2. CASE k > 1
      <4>1. k - 1 \in Nat /\ (k - 1) + 1 = k
        BY <3>2
      <4>2. PICK q \in Nat : q = Power(base, k - 1) /\ p = base * q
        <5>1. Power(base, k - 1) \in Nat /\ Power(base, (k - 1) + 1) =
                base * Power(base, k - 1)
          BY <1>1, <4>1, PowerIs
        <5> QED
          BY <2>4, <4>1, <5>1
      <4>3. q <= w
        BY <2>3, <3>2, <4>2 DEF Long
      <4> QED
        BY <1>3, <2>1, <4>2, <4>3 DEF Bases
    <3> QED
      BY <3>1, <3>2
  <2>7. 1 + k = k + 1 /\ (1 + k) - 1 = k
    OBVIOUS
  <2>8. Long(v, base, 1 + k)
    BY <2>4, <2>5, <2>6, <2>7 DEF Long
  <2> QED
    BY <1>3, <2>2, <2>8
<1> QED
  BY <1>1, <1>3, <1>4, <1>5

\* No number has two lengths.
LEMMA OneLength ==
  ASSUME NEW base \in Nat \ {0}, NEW v \in Nat, NEW k \in Nat \ {0}, NEW j \in Nat \ {0},
         Long(v, base, k), Long(v, base, j)
  PROVE  k = j
<1>1. ASSUME NEW x \in Nat \ {0}, NEW y \in Nat \ {0}, Long(v, base, x), Long(v, base, y),
             x < y
      PROVE  FALSE
  <2>1. y - 1 \in Nat /\ x <= y - 1 /\ y > 1
    BY <1>1
  <2>2. PICK p \in Nat, q \in Nat : p = Power(base, x) /\ q = Power(base, y - 1)
    BY <2>1, PowerIs
  <2>3. v < p /\ q <= v
    BY <1>1, <2>1, <2>2 DEF Long
  <2>4. p <= q
    BY <2>1, <2>2, PowersGrow
  <2> QED
    BY <2>3, <2>4
<1>2. ~(k < j) /\ ~(j < k)
  BY <1>1
<1> QED
  BY <1>2

\* A long is two to its bits; its numbers have no more digits than it has bits.
LEMMA LongIs ==
  /\ BITS \in Nat \ {0} /\ BITS % 4 = 0
  /\ LONG \in Nat /\ LONG >= 16
  /\ \A base \in Bases, n \in 0 .. LONG - 1 : DigitCount(n, base) \in 1 .. BITS
<1>1. BITS \in Nat \ {0} /\ BITS % 4 = 0
  BY TextAssumption DEF TextBounds
<1>2. LONG \in Nat /\ LONG >= 16
  <2>1. PICK k \in Nat : BITS = 4 * (k + 1)
    <3>1. BITS \div 4 - 1 \in Nat /\ BITS = 4 * ((BITS \div 4 - 1) + 1)
      BY <1>1
    <3> QED
      BY <3>1
  <2>2. Power(2, 4 * (k + 1)) = Power(16, k + 1)
    BY PowersOfBases
  <2>3. PICK x \in Nat \ {0} : x = Power(16, k) /\ Power(16, k + 1) = 16 * x
    <3>1. 16 \in Nat /\ 16 \in Nat \ {0}
      OBVIOUS
    <3>2. Power(16, k) \in Nat \ {0} /\ Power(16, k + 1) = 16 * Power(16, k)
      BY <3>1, PowersAdd, PowerIs
    <3> QED
      BY <3>2
  <2>4. LONG = 16 * x
    BY <2>1, <2>2, <2>3 DEF LONG
  <2> QED
    BY <2>4
<1>3. ASSUME NEW base \in Bases,
             NEW n \in 0 .. LONG - 1 PROVE DigitCount(n, base) \in 1 .. BITS
  <2>1. base \in Nat /\ base >= 2 /\ base # 0 /\ n \in Nat
    BY <1>2 DEF Bases
  <2>2. PICK k \in Nat \ {0} : k = DigitCount(n, base) /\ Long(n, base, k)
    BY <2>1, CountsByDividing, CountIsLong
  <2>3. k <= BITS
    <3> SUFFICES ASSUME k > BITS PROVE FALSE
      BY <1>1
    <3>1. k - 1 \in Nat /\ BITS <= k - 1 /\ k > 1
      BY <1>1
    <3>2. PICK p \in Nat, q \in Nat : p = Power(base, k - 1) /\ q = Power(base, BITS)
      BY <1>1, <2>1, <3>1, PowerIs
    <3>3. q <= p /\ p <= n
      BY <1>1, <2>1, <2>2, <3>1, <3>2, PowersGrow DEF Long
    <3>4. LONG <= q
      BY <1>1, <3>2, PowersOfBases DEF LONG
    <3> QED
      BY <1>2, <3>3, <3>4
  <2> QED
    BY <1>1, <2>2, <2>3
<1> QED
  BY <1>1, <1>2, <1>3

\* What the letters of an alphabet may be, taken at any number.
Letters(upper) == {Alphabet(upper)[m] : m \in Nat}

\* What is put before a sequence belongs to it.
LEMMA Put1 ==
  ASSUME NEW E, NEW e \in E
  PROVE  \A y \in Seq(E) : <<e>> \o y \in Seq(E)
OBVIOUS

\* The places are printed one after the other.
LEMMA PartsByDividing ==
  ASSUME NEW base \in Nat, base >= 2, NEW upper
  PROVE  /\ \A v, p \in Nat : NumberyParts(v, p, base, upper) \in Seq(Letters(upper))
         /\ \A v \in Nat : NumberyParts(v, 0, base, upper) = <<>>
         /\ \A v \in Nat, p \in Nat \ {0} :
              NumberyParts(v, p, base, upper)
                = <<Alphabet(upper)[v \div p + 1]>> \o
                    NumberyParts(v % p, p \div base, base, upper)
<1> DEFINE q == CHOOSE f : f = [vp \in Nat \X Nat |->
                                  IF vp[2] = 0 THEN <<>>
                                  ELSE <<Alphabet(upper)[vp[1] \div vp[2] + 1]>> \o
                                      f[<<vp[1] % vp[2], vp[2] \div base>>]]
           r == [x \in Nat \X Nat |-> x[2]]
           nx == [x \in Nat \X Nat |-> <<x[1] % x[2], x[2] \div base>>]
           h == [x \in Nat \X Nat |-> [y \in Seq(Letters(upper)) |-> <<Alphabet(upper)[x[1] \div x[2] + 1]>> \o y]]
           c1 == [x \in Nat \X Nat |-> <<>>]
<1>1. ASSUME NEW v \in Nat, NEW p \in Nat \ {0}
       PROVE  v % p \in Nat /\ v \div p \in Nat /\ p \div base \in Nat /\ p \div base < p
  <2> HIDE DEF q, r, nx, h, c1
  <2> QED
    BY Parts, Shrinks
<1>2. \A v, p \in Nat : NumberyParts(v, p, base, upper) = q[<<v, p>>]
  BY DEF NumberyParts
<1>3. r \in [Nat \X Nat -> Nat] /\ \A x \in Nat \X Nat : x \in Nat \X {0} =>
        c1[x] \in Seq(Letters(upper))
  OBVIOUS
<1>4. ASSUME NEW x \in Nat \X Nat, x \notin Nat \X {0}
      PROVE  /\ nx[x] = <<x[1] % x[2], x[2] \div base>> /\ nx[x] \in Nat \X Nat
             /\ r[nx[x]] < r[x]
             /\ x[2] # 0
             /\ \A y \in Seq(Letters(upper)) :
                  h[x][y] = <<Alphabet(upper)[x[1] \div x[2] + 1]>> \o y /\
                      h[x][y] \in Seq(Letters(upper))
  <2>1. PICK v \in Nat, p \in Nat \ {0} : x = <<v, p>>
    BY <1>4
  <2>2. v % p \in Nat /\ v \div p \in Nat
    BY <1>1, Zenon
  <2>3. p \div base \in Nat /\ p \div base < p
    BY Shrinks
  <2>4. x[1] = v /\ x[2] = p
    BY <2>1
  <2>5. nx[x] = <<v % p, p \div base>>
    BY <2>4
  <2>6. <<v % p, p \div base>> \in Nat \X Nat /\ r[<<v % p, p \div base>>] = p \div base /\
          r[x] = p
    BY <2>2, <2>3, <2>4
  <2>7. \A y \in Seq(Letters(upper)) : h[x][y] = <<Alphabet(upper)[v \div p + 1]>> \o y
    BY <2>4
  <2>8. Alphabet(upper)[v \div p + 1] \in Letters(upper)
    BY <2>2 DEF Letters
  <2>9. \A y \in Seq(Letters(upper)) : <<Alphabet(upper)[v \div p + 1]>> \o
          y \in Seq(Letters(upper))
    BY <2>8, Put1
  <2>10. p # 0
    OBVIOUS
  <2>11. nx[x] \in Nat \X Nat /\ r[nx[x]] < r[x]
    <3> HIDE DEF nx, r
    <3> QED
      BY <2>3, <2>5, <2>6
  <2> HIDE DEF h, nx, r
  <2> QED
    BY <2>4, <2>5, <2>7, <2>9, <2>10, <2>11
<1>5. Falls(Nat \X Nat, Seq(Letters(upper)), r, nx, h, Nat \X {0}, c1)
  <2>1. <<>> \in Seq(Letters(upper))
    OBVIOUS
  <2> HIDE DEF r, nx, h, c1
  <2> QED
    BY <1>3, <1>4, <2>1 DEF Falls
<1>6. PICK f \in [Nat \X Nat -> Seq(Letters(upper))] :
        \A x \in Nat \X Nat : f[x] = IF x \in Nat \X {0} THEN c1[x] ELSE h[x][f[nx[x]]]
  <2> HIDE DEF r, nx, h, c1
  <2>1. PICK D, B, R : D = Nat \X Nat /\ B = Nat \X {0} /\ R = Seq(Letters(upper))
    OBVIOUS
  <2>2. Falls(D, R, r, nx, h, B, c1)
    BY <1>5, <2>1, Zenon
  <2>3. \E f \in [D -> R] : \A x \in D : f[x] = IF x \in B THEN c1[x] ELSE h[x][f[nx[x]]]
    BY <2>2, Recursion
  <2> QED
    BY <2>1, <2>3
<1>7. ASSUME NEW x \in Nat \X Nat
      PROVE  f[x] = IF x[2] = 0 THEN <<>>
                    ELSE <<Alphabet(upper)[x[1] \div x[2] + 1]>> \o
                        f[<<x[1] % x[2], x[2] \div base>>]
  <2>1. CASE x \in Nat \X {0}
    <3>1. x[2] = 0 /\ c1[x] = <<>>
      BY <2>1
    <3> HIDE DEF c1, h, nx
    <3> QED
      BY <1>6, <2>1, <3>1
  <2>2. CASE x \notin Nat \X {0}
    <3>1. f[x] = h[x][f[nx[x]]]
      <4> HIDE DEF h, nx, c1
      <4> QED
        BY <1>6, <2>2
    <3>2. f[nx[x]] \in Seq(Letters(upper))
      <4> HIDE DEF nx, h, c1
      <4> QED
        BY <1>4, <1>6, <2>2
    <3> HIDE DEF nx, h, c1
    <3> QED
      BY <1>4, <2>2, <3>1, <3>2
  <2> QED
    BY <2>1, <2>2
<1>8. f = [vp \in Nat \X Nat |->
             IF vp[2] = 0 THEN <<>>
             ELSE <<Alphabet(upper)[vp[1] \div vp[2] + 1]>> \o
                 f[<<vp[1] % vp[2], vp[2] \div base>>]]
  <2> QED
    BY <1>7, SMTT(30)
<1>9. q = [vp \in Nat \X Nat |->
             IF vp[2] = 0 THEN <<>>
             ELSE <<Alphabet(upper)[vp[1] \div vp[2] + 1]>> \o
                 q[<<vp[1] % vp[2], vp[2] \div base>>]]
  <2> QED
    BY <1>8, ZenonT(40)
<1> HIDE DEF q
<1>10. ASSUME NEW v \in Nat, NEW p \in Nat
      PROVE  q[<<v, p>>] = IF p = 0 THEN <<>>
                           ELSE <<Alphabet(upper)[v \div p + 1]>> \o q[<<v % p, p \div base>>]
  <2>1. <<v, p>> \in Nat \X Nat /\ <<v, p>>[1] = v /\ <<v, p>>[2] = p
    OBVIOUS
  <2> QED
    BY <1>9, <2>1
<1>11. \A p, v \in Nat : q[<<v, p>>] \in Seq(Letters(upper))
  <2> DEFINE T == {p \in Nat : \E v \in Nat : q[<<v, p>>] \notin Seq(Letters(upper))}
  <2> SUFFICES ASSUME T # {} PROVE FALSE
    OBVIOUS
  <2>1. PICK p \in T : \A j \in T : p <= j
    <3>1. T \subseteq Nat
      OBVIOUS
    <3> HIDE DEF T
    <3> QED
      BY <3>1, LeastOf
  <2>2. PICK v \in Nat : q[<<v, p>>] \notin Seq(Letters(upper))
    OBVIOUS
  <2>3. p \in Nat \ {0}
    BY <1>10, <2>2, EmptySeq
  <2>4. v % p \in Nat /\ v \div p \in Nat /\ p \div base \in Nat /\ p \div base < p
    BY <1>1, <2>3
  <2>5. p \div base \notin T
    <3> HIDE DEF T
    <3> QED
      BY <2>1, <2>3, <2>4
  <2>6. q[<<v % p, p \div base>>] \in Seq(Letters(upper))
    BY <2>4, <2>5
  <2>7. Alphabet(upper)[v \div p + 1] \in Letters(upper)
    BY <2>4 DEF Letters
  <2>8. q[<<v, p>>] = <<Alphabet(upper)[v \div p + 1]>> \o q[<<v % p, p \div base>>]
    BY <1>10, <2>3
  <2> QED
    BY <2>2, <2>6, <2>7, <2>8
<1>12. \A v \in Nat : q[<<v, 0>>] = <<>>
  BY <1>10
<1>13. \A v \in Nat, p \in Nat \ {0} :
         q[<<v, p>>] = <<Alphabet(upper)[v \div p + 1]>> \o q[<<v % p, p \div base>>]
  BY <1>10, Zenon
<1> HIDE DEF r, nx, h, c1
<1>14. ASSUME NEW v \in Nat, NEW p \in Nat \ {0}
       PROVE  NumberyParts(v, p, base, upper)
                = <<Alphabet(upper)[v \div p + 1]>> \o
                    NumberyParts(v % p, p \div base, base, upper)
  BY <1>2, <1>1, <1>13, ZenonT(40)
<1> QED
  BY <1>2, <1>11, <1>12, <1>14

\* The digits of a number, from the place above the k-th down.
DigitsOf(v, base, upper, k) ==
  [i \in 1 .. k |-> Alphabet(upper)[((v \div Power(base, k - i)) % base) + 1]]

\* They are letters.
LEMMA DigitsTyped ==
  ASSUME NEW v \in Nat, NEW base \in Nat \ {0}, NEW upper, NEW k \in Nat
  PROVE  /\ DigitsOf(v, base, upper, k) \in Seq(Letters(upper))
         /\ Len(DigitsOf(v, base, upper, k)) = k
         /\ \A i \in 1 .. k : DigitsOf(v, base, upper, k)[i] =
             Alphabet(upper)[((v \div Power(base, k - i)) % base) + 1]
<1>1. ASSUME NEW i \in 1 .. k
      PROVE  Alphabet(upper)[((v \div Power(base, k - i)) % base) + 1] \in Letters(upper)
  <2>1. k - i \in Nat
    OBVIOUS
  <2>2. Power(base, k - i) \in Nat \ {0}
    BY <2>1, PowersAdd
  <2>3. v \div Power(base, k - i) \in Nat
    BY <2>2, Parts
  <2>4. ((v \div Power(base, k - i)) % base) + 1 \in Nat
    BY <2>3, Parts
  <2> QED
    BY <2>4 DEF Letters
<1> QED
  BY <1>1 DEF DigitsOf

\* Printed from its largest place, a number gives its digits.
LEMMA DigitsPrinted ==
  ASSUME NEW base \in Bases, NEW upper
  PROVE  \A k \in Nat : \A v \in Nat : v < Power(base, k + 1) =>
           NumberyParts(v, Power(base, k), base, upper) = DigitsOf(v, base, upper, k + 1)
<1> DEFINE S == {k \in Nat : \A v \in Nat : v < Power(base, k + 1) =>
                   NumberyParts(v, Power(base, k), base, upper) =
                       DigitsOf(v, base, upper, k + 1)}
<1>1. base \in Nat /\ base >= 2 /\ base \in Nat \ {0}
  BY DEF Bases
<1>2. \A v \in Nat, p \in Nat \ {0} :
         NumberyParts(v, p, base, upper)
           = <<Alphabet(upper)[v \div p + 1]>> \o
               NumberyParts(v % p, p \div base, base, upper)
  BY <1>1, PartsByDividing
<1>3. 0 \in S
  <2> SUFFICES ASSUME NEW v \in Nat, v < Power(base, 0 + 1)
               PROVE  NumberyParts(v, Power(base, 0), base, upper) =
                       DigitsOf(v, base, upper, 0 + 1)
    OBVIOUS
  <2>1. Power(base, 0) = 1 /\ Power(base, 0 + 1) = base * 1
    BY <1>1, PowerIs
  <2>2. v < base /\ v \div 1 = v /\ v % 1 = 0 /\ 1 \div base = 0 /\ v % base = v
    BY <2>1 DEF Bases
  <2>3. NumberyParts(v, 1, base, upper) = <<Alphabet(upper)[v \div 1 + 1]>> \o
          NumberyParts(v % 1, 1 \div base, base, upper)
    <3>1. 1 \in Nat \ {0}
      OBVIOUS
    <3> QED
      BY <1>1, <3>1, PartsByDividing, ZenonT(40)
  <2>4. NumberyParts(v % 1, 1 \div base, base, upper) = <<>>
    <3>1. 0 \in Nat
      OBVIOUS
    <3>2. NumberyParts(0, 0, base, upper) = <<>>
      BY <1>1, <3>1, PartsByDividing
    <3> QED
      BY <2>2, <3>2
  <2>5. NumberyParts(v, 1, base, upper) = <<Alphabet(upper)[v + 1]>>
    BY <2>2, <2>3, <2>4
  <2>6. \A i \in 1 .. 1 : ((v \div Power(base, 1 - i)) % base) + 1 = v + 1
    <3>1. ((v \div Power(base, 0)) % base) + 1 = v + 1
      BY <2>1, <2>2
    <3>2. \A i \in 1 .. 1 : 1 - i = 0
      OBVIOUS
    <3> QED
      BY <3>1, <3>2
  <2>7. DigitsOf(v, base, upper, 1) = [i \in 1 .. 1 |-> Alphabet(upper)[v + 1]]
    BY <2>6 DEF DigitsOf
  <2> QED
    BY <2>1, <2>5, <2>7
<1>4. ASSUME NEW k \in Nat, k \in S PROVE k + 1 \in S
  <2> SUFFICES ASSUME NEW v \in Nat, v < Power(base, (k + 1) + 1)
               PROVE  NumberyParts(v, Power(base, k + 1), base, upper) =
                       DigitsOf(v, base, upper, (k + 1) + 1)
    OBVIOUS
  <2>1. PICK p \in Nat \ {0}, q \in Nat \ {0} :
          p = Power(base, k) /\ q = Power(base, k + 1) /\ q = base * p /\
              Power(base, (k + 1) + 1) = base * q
    <3>1. k + 1 \in Nat
      OBVIOUS
    <3>2. Power(base, k) \in Nat \ {0} /\ Power(base, k + 1) \in Nat \ {0}
      BY <1>1, <3>1, PowersAdd
    <3>3. Power(base, k + 1) = base * Power(base, k) /\
            Power(base, (k + 1) + 1) = base * Power(base, k + 1)
      BY <1>1, <3>1, PowerIs
    <3> QED
      BY <3>2, <3>3
  <2>2. PICK a \in Nat, r \in Nat : a = v \div q /\ r = v % q /\ r < q /\ v = a * q + r
    <3>1. v \div q \in Nat /\ v % q \in 0 .. q - 1 /\ v = (v \div q) * q + (v % q)
      BY Parts
    <3> QED
      BY <3>1
  <2>3. a < base
    <3> SUFFICES ASSUME a >= base PROVE FALSE
      BY <1>1
    <3>1. a * q >= base * q
      <4>1. PICK d \in Nat : a = base + d
        <5>1. a - base \in Nat /\ a = base + (a - base)
          BY <1>1
        <5> QED
          BY <5>1
      <4>2. PICK x \in Nat : x = d * q
        OBVIOUS
      <4>3. a * q = base * q + x
        BY <4>1, <4>2 DEF Bases
      <4> QED
        BY <4>2, <4>3 DEF Bases
    <3>2. v < base * q
      BY <2>1
    <3> QED
      BY <1>1, <2>2, <3>1, <3>2
  <2>4. a % base = a
    BY <2>3 DEF Bases
  <2>5. q \div base = p
    BY <2>1 DEF Bases
  <2>6. NumberyParts(v, q, base, upper) = <<Alphabet(upper)[a + 1]>> \o
          NumberyParts(r, p, base, upper)
    <3>1. NumberyParts(v, q, base, upper)
            = <<Alphabet(upper)[v \div q + 1]>> \o
                NumberyParts(v % q, q \div base, base, upper)
      BY <1>2, Zenon
    <3> QED
      BY <2>2, <2>5, <3>1
  <2>7. NumberyParts(r, p, base, upper) = DigitsOf(r, base, upper, k + 1)
    BY <1>4, <2>1, <2>2
  <2> DEFINE n == k + 1
             s == DigitsOf(v, base, upper, n + 1)
             t == DigitsOf(r, base, upper, n)
             u == <<Alphabet(upper)[a + 1]>> \o t
  <2>8. n \in Nat /\ n + 1 \in Nat
    OBVIOUS
  <2>9. /\ s \in Seq(Letters(upper)) /\ Len(s) = n + 1
        /\ \A i \in 1 .. n + 1 : s[i] =
            Alphabet(upper)[((v \div Power(base, (n + 1) - i)) % base) + 1]
    <3> HIDE DEF n
    <3> QED
      BY <1>1, <2>8, DigitsTyped
  <2>10. /\ t \in Seq(Letters(upper)) /\ Len(t) = n
         /\ \A i \in 1 .. n : t[i] = Alphabet(upper)[((r \div Power(base, n - i)) % base) + 1]
    <3> HIDE DEF n
    <3> QED
      BY <1>1, <2>8, DigitsTyped
  <2>11. Alphabet(upper)[a + 1] \in Letters(upper)
    BY DEF Letters
  <2>12. ASSUME NEW i \in 1 .. n + 1 PROVE s[i] = u[i]
    <3>1. CASE i = 1
      <4>1. (n + 1) - i = n
        BY <2>8, <3>1
      <4>2. s[1] = Alphabet(upper)[a + 1]
        <5> HIDE DEF s
        <5> QED
          BY <2>1, <2>2, <2>4, <2>9, <3>1, <4>1, ZenonT(40)
      <4>3. u[1] = Alphabet(upper)[a + 1]
        <5> HIDE DEF t
        <5> QED
          BY <2>10, <2>11
      <4> QED
        BY <3>1, <4>2, <4>3
    <3>2. CASE i # 1
      <4>1. i - 1 \in 1 .. n /\ (n + 1) - i = n - (i - 1) /\ n - (i - 1) \in Nat /\
              n - (i - 1) < n
        BY <2>8, <2>12, <3>2
      <4>2. u[i] = t[i - 1]
        <5> HIDE DEF t, n
        <5> QED
          BY <2>8, <2>10, <2>11, <2>12, <3>2, <4>1
      <4>3. ((r \div Power(base, n - (i - 1))) % base) =
              ((v \div Power(base, n - (i - 1))) % base)
        <5>1. r = v % Power(base, n)
          BY <2>1, <2>2
        <5> HIDE DEF n
        <5> QED
          BY <1>1, <2>8, <4>1, <5>1, DigitsBelow
      <4>4. t[i - 1] = Alphabet(upper)[((r \div Power(base, n - (i - 1))) % base) + 1]
        <5> HIDE DEF t, n
        <5> QED
          BY <2>10, <4>1
      <4>5. s[i] = Alphabet(upper)[((v \div Power(base, n - (i - 1))) % base) + 1]
        <5> HIDE DEF s, n
        <5> QED
          BY <2>9, <2>12, <4>1
      <4> QED
        BY <4>2, <4>3, <4>4, <4>5
    <3> QED
      BY <3>1, <3>2
  <2>13. s = u
    <3>1. u \in Seq(Letters(upper)) /\ Len(u) = n + 1
      <4> HIDE DEF t, n
      <4> QED
        BY <2>8, <2>10, <2>11
    <3> HIDE DEF s, u, n
    <3> QED
      BY <2>8, <2>9, <2>12, <3>1, SeqEqual
  <2> QED
    BY <2>1, <2>6, <2>7, <2>13
<1> HIDE DEF S
<1>5. \A k \in Nat : k \in S
  BY <1>3, <1>4, Climbs
<1> QED
  BY <1>5 DEF S

\* The code's own characters are characters, and none is a Ctrl-D.
LEMMA OwnChars == Own \subseteq Char /\ EOT \notin Own /\ Char \subseteq Characters
<1>1. EOT \notin Own
  BY DEF Own, EOT, NUL, CR, LF
<1> QED
  BY <1>1, TextAssumption DEF TextBounds, Char

\* The ten digits, and what they are not.
LEMMA DigitsAre ==
  /\ \A x : IsDigit(x) <=> x \in {"0", "1", "2", "3", "4", "5", "6", "7", "8", "9"}
  /\ \A w \in 0 .. 9 : /\ Digits[w + 1] \in Char /\ IsDigit(Digits[w + 1])
                       /\ DigitOf(Digits[w + 1]) = w
                       /\ Digits[w + 1] \notin {".", "l", "%"} /\
                           (w # 0 => Digits[w + 1] # "0")
<1>1. DOMAIN Digits = 1 .. 10
  BY DEF Digits
<1>2. \A i \in 1 .. 10 : i \in {1, 2, 3, 4, 5, 6, 7, 8, 9, 10}
  OBVIOUS
<1>3. /\ Digits[1] = "0" /\ Digits[2] = "1" /\ Digits[3] = "2" /\ Digits[4] = "3"
      /\ Digits[5] = "4"
      /\ Digits[6] = "5" /\ Digits[7] = "6" /\ Digits[8] = "7" /\ Digits[9] = "8"
      /\ Digits[10] = "9"
  BY DEF Digits
<1>4. ToSet(Digits) = {Digits[i] : i \in 1 .. 10}
  BY <1>1 DEF ToSet
<1>5. \A x : x \in ToSet(Digits) <=> x \in {"0", "1", "2", "3", "4", "5", "6", "7", "8", "9"}
  <2>1. \A x \in ToSet(Digits) : x \in {"0", "1", "2", "3", "4", "5", "6", "7", "8", "9"}
    BY <1>2, <1>3, <1>4
  <2>2. {Digits[1], Digits[2], Digits[3], Digits[4], Digits[5], Digits[6], Digits[7], Digits[8], Digits[9], Digits[10]}
          \subseteq ToSet(Digits)
    BY <1>4
  <2> QED
    BY <1>3, <2>1, <2>2
<1>6. \A x : IsDigit(x) <=> x \in {"0", "1", "2", "3", "4", "5", "6", "7", "8", "9"}
  BY <1>5 DEF IsDigit
<1>7. \A i, j \in 1 .. 10 : Digits[i] = Digits[j] => i = j
  BY <1>2, <1>3
<1>8. ASSUME NEW w \in 0 .. 9 PROVE DigitOf(Digits[w + 1]) = w
  <2>1. w + 1 \in 1 .. 10
    OBVIOUS
  <2>2. (CHOOSE i \in 1 .. 10 : Digits[i] = Digits[w + 1]) = w + 1
    BY <1>7, <2>1
  <2> QED
    <3>1. (w + 1) - 1 = w
      OBVIOUS
    <3> QED
      BY <2>2, <3>1 DEF DigitOf
<1>9. ASSUME NEW w \in 0 .. 9
      PROVE  Digits[w + 1] \in Char /\ IsDigit(Digits[w + 1]) /\
              Digits[w + 1] \notin {".", "l", "%"} /\ (w # 0 => Digits[w + 1] # "0")
  <2>1. w \in {0, 1, 2, 3, 4, 5, 6, 7, 8, 9}
    OBVIOUS
  <2>2. Digits[w + 1] \in {"0", "1", "2", "3", "4", "5", "6", "7", "8", "9"}
    BY <1>3, <2>1
  <2>3. w # 0 => Digits[w + 1] # "0"
    BY <1>3, <1>7
  <2> QED
    <3>1. Digits[w + 1] \in Own
      BY <2>2, Zenon DEF Own
    <3> QED
      BY <1>6, <2>2, <2>3, <3>1, OwnChars
<1> QED
  BY <1>6, <1>8, <1>9

\* The letters of sixteen digits are characters.
LEMMA AlphabetIs ==
  ASSUME NEW upper, NEW i \in 1 .. 16
  PROVE  Alphabet(upper)[i] \in Char /\ (~upper => Alphabet(upper)[1] = "0")
<1>1. Own \subseteq Char
  BY OwnChars
<1>2. Digits \in Seq(Own) /\ Len(Digits) = 10 /\ Digits[1] = "0"
  BY DEF Digits, Own
<1>3. PICK low : low = <<"a","b","c","d","e","f">> /\ low \in Seq(Own) /\ Len(low) = 6
  <2>1. <<"a","b","c","d","e","f">> \in Seq(Own) /\ Len(<<"a","b","c","d","e","f">>) = 6
    BY DEF Own
  <2> QED
    BY <2>1, Zenon
<1>4. PICK up : up = <<"A","B","C","D","E","F">> /\ up \in Seq(Own) /\ Len(up) = 6
  <2>1. <<"A","B","C","D","E","F">> \in Seq(Own) /\ Len(<<"A","B","C","D","E","F">>) = 6
    BY DEF Own
  <2> QED
    BY <2>1, Zenon
<1>5. Lower \in Seq(Own) /\ Len(Lower) = 16 /\ Lower[1] = "0"
  <2>1. Lower = Digits \o low
    BY <1>3, Zenon DEF Lower
  <2>2. Digits \o low \in Seq(Own) /\ Len(Digits \o low) = Len(Digits) + Len(low)
    BY <1>2, <1>3, ConcatProperties
  <2>3. \A j \in 1 .. Len(Digits) + Len(low) : (Digits \o low)[j] =
          IF j <= Len(Digits) THEN Digits[j] ELSE low[j - Len(Digits)]
    BY <1>2, <1>3, ConcatProperties, ZenonT(40)
  <2>4. Len(Digits) + Len(low) = 16 /\ 1 \in 1 .. Len(Digits) + Len(low) /\ 1 <= Len(Digits)
    BY <1>2, <1>3
  <2> QED
    BY <1>2, <2>1, <2>2, <2>3, <2>4
<1>6. Upper \in Seq(Own) /\ Len(Upper) = 16
  <2>1. Upper = Digits \o up
    BY <1>4, Zenon DEF Upper
  <2>2. Digits \o up \in Seq(Own) /\ Len(Digits \o up) = Len(Digits) + Len(up)
    BY <1>2, <1>4, ConcatProperties
  <2>3. Len(Digits) + Len(up) = 16
    BY <1>2, <1>4
  <2> QED
    BY <2>1, <2>2, <2>3
<1>7. Lower[i] \in Own /\ Upper[i] \in Own
  <2>1. i \in 1 .. Len(Lower) /\ i \in 1 .. Len(Upper)
    BY <1>5, <1>6
  <2> QED
    BY <1>5, <1>6, <2>1, ElementOfSeq
<1>8. Lower[i] \in Char /\ Upper[i] \in Char
  BY <1>1, <1>7
<1> QED
  BY <1>5, <1>8 DEF Alphabet

\* Digits are characters.
LEMMA DigitsSpelt ==
  ASSUME NEW v \in Nat, NEW base \in Bases, NEW upper, NEW k \in Nat
  PROVE  DigitsOf(v, base, upper, k) \in Seq(Char) /\ Len(DigitsOf(v, base, upper, k)) = k
<1>1. base \in Nat \ {0} /\ base <= 16
  BY DEF Bases
<1>2. ASSUME NEW i \in 1 .. k
      PROVE  Alphabet(upper)[((v \div Power(base, k - i)) % base) + 1] \in Char
  <2>1. k - i \in Nat
    OBVIOUS
  <2>2. PICK p \in Nat \ {0} : p = Power(base, k - i)
    BY <1>1, <2>1, PowersAdd
  <2>3. v \div p \in Nat
    BY Parts
  <2>4. (v \div p) % base \in 0 .. base - 1
    BY <1>1, <2>3, Parts
  <2>5. ((v \div p) % base) + 1 \in 1 .. 16
    BY <1>1, <2>4
  <2>6. Alphabet(upper)[((v \div p) % base) + 1] \in Char
    BY <2>5, AlphabetIs
  <2> QED
    BY <2>2, <2>6
<1> QED
  BY <1>2 DEF DigitsOf

\* A numeral has the digits that are counted, and they are what is printed.
LEMMA NumeralIs ==
  ASSUME NEW base \in Bases, NEW n \in 0 .. LONG - 1, NEW upper
  PROVE  /\ Numeral(n, base, upper) = DigitsOf(n, base, upper, DigitCount(n, base))
         /\ Numeral(n, base, upper) =
             NumberyParts(n, Power(base, DigitCount(n, base) - 1), base, upper)
         /\ Numeral(n, base, upper) \in Seq(Char)
         /\ Len(Numeral(n, base, upper)) = DigitCount(n, base)
         /\ DigitCount(n, base) \in Nat \ {0}
<1>1. base \in Nat \ {0} /\ base >= 2 /\ base \in Nat
  BY DEF Bases
<1>2. n \in Nat /\ LONG \in Nat /\ BITS \in Nat
  BY LongIs
<1>3. PICK k \in Nat \ {0} : k = DigitCount(n, base) /\ Long(n, base, k) /\ k \in 1 .. BITS
  <2>1. DigitCount(n, base) \in 1 .. BITS
    BY LongIs
  <2>2. Long(n, base, DigitCount(n, base))
    BY <1>2, CountIsLong
  <2>3. DigitCount(n, base) \in Nat \ {0}
    BY <1>2, <2>1
  <2> QED
    BY <2>1, <2>2, <2>3
<1>4. Places(n, base) = k
  <2>1. n < Power(base, k) /\ (k > 1 => n >= Power(base, k - 1))
    <3>1. k > 1 => k - 1 \in Nat /\ Power(base, k - 1) \in Nat
      <4>1. k - 1 \in Nat
        BY <1>3
      <4>2. Power(base, k - 1) \in Nat
        BY <1>1, <4>1, PowerIs
      <4> QED
        BY <4>1, <4>2
    <3> QED
      BY <1>2, <1>3, <3>1 DEF Long
  <2>2. ASSUME NEW j \in 1 .. BITS, n < Power(base, j), j > 1 => n >= Power(base, j - 1)
        PROVE  j = k
    <3>1. j \in Nat \ {0}
      BY <1>2
    <3>2. j > 1 => j - 1 \in Nat /\ Power(base, j - 1) \in Nat
      <4>1. j - 1 \in Nat
        BY <1>3, <3>1
      <4>2. Power(base, j - 1) \in Nat
        BY <1>1, <4>1, PowerIs
      <4> QED
        BY <4>1, <4>2
    <3>3. Long(n, base, j)
      BY <1>2, <2>2, <3>2 DEF Long
    <3> QED
      BY <1>1, <1>2, <1>3, <3>1, <3>3, OneLength
  <2> QED
    BY <1>3, <2>1, <2>2 DEF Places
<1>5. Numeral(n, base, upper) = DigitsOf(n, base, upper, k)
  BY <1>4 DEF Numeral, DigitsOf
<1>6. NumberyParts(n, Power(base, k - 1), base, upper) = DigitsOf(n, base, upper, k)
  <2>1. k - 1 \in Nat /\ (k - 1) + 1 = k
    BY <1>3
  <2>2. n < Power(base, (k - 1) + 1)
    BY <1>3, <2>1 DEF Long
  <2>3. NumberyParts(n, Power(base, k - 1), base, upper) =
          DigitsOf(n, base, upper, (k - 1) + 1)
    BY <1>2, <2>1, <2>2, DigitsPrinted
  <2> QED
    BY <2>1, <2>3
<1>7. DigitsOf(n, base, upper, k) \in Seq(Char) /\ Len(DigitsOf(n, base, upper, k)) = k
  BY <1>2, DigitsSpelt
<1> QED
  BY <1>3, <1>5, <1>6, <1>7

\* The same character several times, or not at all.
LEMMA Blanks ==
  ASSUME NEW char \in Char, NEW r \in Int
  PROVE  /\ [i \in 1 .. r |-> char] \in Seq(Char)
         /\ Len([i \in 1 .. r |-> char]) = IF r > 0 THEN r ELSE 0
         /\ r <= 0 => [i \in 1 .. r |-> char] = <<>>
<1> DEFINE f == [i \in 1 .. r |-> char]
<1>1. CASE r > 0
  <2>1. f \in Seq(Char) /\ Len(f) = r
    <3>1. r \in Nat
      BY <1>1
    <3> QED
      BY <3>1
  <2>2. ~(r <= 0)
    BY <1>1
  <2> HIDE DEF f
  <2>3. f \in Seq(Char) /\ Len(f) = (IF r > 0 THEN r ELSE 0) /\ (r <= 0 => f = <<>>)
    BY <1>1, <2>1, <2>2
  <2> QED
    BY <2>3 DEF f
<1>2. CASE r <= 0
  <2>1. 1 .. r = {}
    BY <1>2
  <2>2. f = <<>>
    BY <2>1
  <2>3. ~(r > 0)
    BY <1>2
  <2> HIDE DEF f
  <2>4. f \in Seq(Char) /\ Len(f) = (IF r > 0 THEN r ELSE 0) /\ (r <= 0 => f = <<>>)
    BY <2>2, <2>3, EmptySeq
  <2> QED
    BY <2>4 DEF f
<1>3. r > 0 \/ r <= 0
  OBVIOUS
<1> HIDE DEF f
<1> QED
  BY <1>1, <1>2, <1>3 DEF f

\* A text ends before its first NUL.
LEMMA UptoIs ==
  ASSUME NEW s \in Seq(Char)
  PROVE  /\ Upto(s) \in Seq(Char)
         /\ Len(s) = 1 /\ s[1] # NUL => Upto(s) = s
<1> DEFINE t == Append(s, NUL)
           I == {i \in 1 .. Len(t) : t[i] = NUL}
           m == SelectInSeq(t, LAMBDA char : char = NUL)
<1>1. NUL \in Char
  BY OwnChars, Zenon DEF Own
<1>2. t \in Seq(Char) /\ Len(t) = Len(s) + 1 /\ Len(s) \in Nat /\ t[Len(s) + 1] = NUL
      /\ \A i \in 1 .. Len(s) : t[i] = s[i]
  BY <1>1, AppendProperties
<1>3. Len(s) + 1 \in I /\ I \subseteq Nat /\ I # {}
  <2> HIDE DEF t
  <2> QED
    BY <1>2
<1>4. m = Min(I)
  <2> HIDE DEF t
  <2> QED
    BY <1>3 DEF SelectInSeq
<1>5. Min(I) \in I /\ \A j \in I : Min(I) <= j
  <2> HIDE DEF I
  <2>1. PICK x \in I : \A j \in I : x <= j
    BY <1>3, LeastOf
  <2> QED
    BY <2>1 DEF Min
<1>6. m \in 1 .. Len(s) + 1 /\ t[m] = NUL
  <2> HIDE DEF t, m
  <2> QED
    BY <1>2, <1>4, <1>5
<1>7. Upto(s) = SubSeq(s, 1, m - 1)
  BY DEF Upto
<1> HIDE DEF m, t
<1>8. \A i \in 1 .. m - 1 : s[i] \in Char
  BY <1>2, <1>6
<1>9. Upto(s) \in Seq(Char)
  <2>1. 1 \in Int /\ m - 1 \in Int
    BY <1>2, <1>6
  <2> QED
    BY <1>7, <1>8, <2>1, SubSeqProperties
<1>10. ASSUME Len(s) = 1, s[1] # NUL PROVE Upto(s) = s
  <2>1. m # 1
    BY <1>2, <1>6, <1>10
  <2>2. m - 1 = Len(s)
    BY <1>6, <1>10, <2>1
  <2> QED
    BY <1>7, <2>2, SubSeqFull
<1> QED
  BY <1>9, <1>10

\* What is in an item.
LEMMA ItemIs ==
  ASSUME NEW item \in Item
  PROVE  /\ item.letter \in Numeric \cup {"plain", "%", "c", "s"} /\ item.zero \in BOOLEAN
         /\ item.width \in 0 .. 9 /\ item.extra \in {<<>>, <<".", "2", "l">>}
         /\ item.n \in 0 .. LONG - 1 /\ item.s \in Seq(Char)
         /\ item.letter \in {"plain", "%", "c", "s"} => ~item.zero /\ item.extra = <<>>
         /\ item.letter \in {"plain", "%"} => item.width = 0
         /\ item.letter \in {"plain", "c"} => Len(item.s) = 1 /\ item.s[1] \notin {"%", NUL}
<1>1. item.letter \in {"plain", "%", "c", "s"} => item.letter \notin Numeric
  BY DEF Numeric
<1> QED
  BY <1>1 DEF Item, Proper

\* A negative number is printed by its distance from the power above.
LEMMA SignOf ==
  ASSUME NEW n \in 0 .. LONG - 1
  PROVE  /\ n \in Nat /\ (TwosComplement(n) < 0 <=> n >= LONG \div 2)
         /\ TwosComplement(n) < 0 => -TwosComplement(n) = LONG - n /\
             LONG - n \in 0 .. LONG - 1
<1>1. PICK L \in Nat : L = LONG /\ L >= 16
  BY LongIs
<1>2. PICK h \in Nat : h = L \div 2 /\ h >= 8
  BY <1>1
<1>3. TwosComplement(n) = IF n >= h THEN n - L ELSE n
  BY <1>1, <1>2 DEF TwosComplement
<1> QED
  BY <1>1, <1>2, <1>3

\* A numeric conversion prints what its letter means.
LEMMA IntegerMeans ==
  ASSUME NEW item \in Item, item.letter \in Numeric, NEW f, f.zero = item.zero,
         f.before = IF item.width > 0 THEN item.width ELSE -1
  PROVE  Integer(item.letter, f, item.n) = Meaning(item) /\ Meaning(item) \in Seq(Char)
<1>1. f.before \in Int /\ (f.before = item.width \/ (f.before = -1 /\ item.width = 0))
  <2>1. item.width \in 0 .. 9
    BY ItemIs
  <2> QED
    BY <2>1
<1>2. PICK letter \in {item.letter}, n \in 0 .. LONG - 1, w \in 0 .. 9 : letter =
        item.letter /\ n = item.n /\ w = item.width
  <2>1. item.n \in 0 .. LONG - 1 /\ item.width \in 0 .. 9
    BY ItemIs
  <2> QED
    BY <2>1
<1>3. letter \notin {"plain", "%", "c", "s"} /\ letter = item.letter
  BY <1>2 DEF Numeric
<1>4. PICK base \in Bases : base = Base(letter)
  BY DEF Bases, Base
<1>5. PICK neg \in BOOLEAN : neg <=> letter \in {"d", "i"} /\ n >= LONG \div 2
  <2>1. (letter \in {"d", "i"} /\ n >= LONG \div 2) \in BOOLEAN
    OBVIOUS
  <2> QED
    BY <2>1
<1>6. PICK v \in 0 .. LONG - 1 : /\ v = IF neg THEN LONG - n ELSE n
                                 /\ v = IF neg THEN -TwosComplement(n) ELSE n
  BY <1>5, SignOf
<1>7. neg <=> letter \in {"d", "i"} /\ TwosComplement(n) < 0
  BY <1>5, SignOf
<1>8. PICK d \in Seq(Char), k \in Nat \ {0} :
        /\ d = Numeral(v, base, letter = "X") /\ k = DigitCount(v, base) /\ Len(d) = k
        /\ d = NumberyParts(v, Power(base, k - 1), base, letter = "X")
  BY NumeralIs
<1>9. PICK sign \in Seq(Char) : /\ sign = Sign(neg)
                                /\ Len(sign) = IF neg THEN 1 ELSE 0
  <2>1. "-" \in Char
    BY OwnChars, Zenon DEF Own
  <2>2. <<"-">> \in Seq(Char) /\ Len(<<"-">>) = 1 /\ <<>> \in Seq(Char) /\ Len(<<>>) = 0
    BY <2>1, EmptySeq
  <2>3. Sign(neg) \in Seq(Char) /\ Len(Sign(neg)) = IF neg THEN 1 ELSE 0
    BY <2>2 DEF Sign
  <2> QED
    BY <2>3
<1>10. PICK q \in Int : q = w - (Len(sign) + Len(d))
  <2>1. Len(sign) \in Int /\ Len(d) \in Int
    BY <1>8, <1>9
  <2>2. w - (Len(sign) + Len(d)) \in Int
    BY <2>1
  <2> QED
    BY <2>2
<1>11. PICK r \in Int : r = f.before - k - (IF neg THEN 1 ELSE 0)
  BY <1>2, <1>8
<1>12. r = q \/ (r <= 0 /\ q <= 0)
  <2>1. PICK b \in Int : b = f.before /\ (b = w \/ (b = -1 /\ w = 0))
    BY <1>1, <1>2
  <2>2. PICK x \in Nat, y \in Nat : /\ x = Len(sign) /\ y = k /\ q = w - (x + y)
                                   /\ r = b - y - x
    BY <1>8, <1>9, <1>10, <1>11, <2>1
  <2> QED
    BY <2>1, <2>2
<1>13. ASSUME NEW char \in Char PROVE [i \in 1 .. r |-> char] = [i \in 1 .. q |-> char]
                                      /\ [i \in 1 .. q |-> char] \in Seq(Char)
  BY <1>12, Blanks
<1>14. "0" \in Char /\ " " \in Char
  BY OwnChars, Zenon DEF Own
<1>15. PICK noughts \in Seq(Char) : noughts = [i \in 1 .. r |-> "0"] /\
         noughts = [i \in 1 .. q |-> "0"]
  BY <1>13, <1>14, Zenon
<1>16. PICK blanks \in Seq(Char) : blanks = [i \in 1 .. r |-> " "] /\
         blanks = [i \in 1 .. q |-> " "]
  BY <1>13, <1>14, Zenon
<1>17. Integer(letter, f, n) = IF f.zero THEN sign \o (noughts \o d) ELSE blanks \o
         (sign \o d)
  <2>1. (letter \in {"d", "i"} /\ n >= LONG \div 2) = neg
    BY <1>5
  <2>2. (IF neg THEN LONG - n ELSE n) = v
    BY <1>6
  <2>3. f.before - k - (IF neg THEN 1 ELSE 0) = r
    BY <1>11
  <2> QED
    BY <1>4, <1>8, <1>9, <1>15, <1>16, <2>1, <2>2, <2>3, Zenon DEF Integer, Repeat
<1>18. Meaning(item) = IF item.zero THEN sign \o (noughts \o d) ELSE blanks \o (sign \o d)
  <2>1. (letter \in {"d", "i"} /\ TwosComplement(n) < 0) = neg
    BY <1>7
  <2>2. (IF neg THEN -TwosComplement(n) ELSE n) = v
    BY <1>6
  <2>3. w - (Len(sign) + Len(d)) = q
    BY <1>10
  <2>4. Meaning(item) = Numbery(item)
    BY <1>2, <1>3, Zenon DEF Meaning
  <2>5. Padding(item, "0", Len(sign) + Len(d)) = noughts /\
          Padding(item, " ", Len(sign) + Len(d)) = blanks
    BY <1>2, <1>15, <1>16, <2>3, Zenon DEF Padding
  <2>6. Numbery(item) = IF item.zero THEN sign \o (noughts \o d) ELSE blanks \o (sign \o d)
    BY <1>2, <1>4, <1>8, <1>9, <2>1, <2>2, <2>5, Zenon DEF Numbery
  <2> QED
    BY <2>4, <2>6
<1>19. sign \o (noughts \o d) \in Seq(Char) /\ blanks \o (sign \o d) \in Seq(Char)
  BY <1>8, <1>9, <1>15, <1>16, ConcatProperties, Zenon
<1> QED
  BY <1>2, <1>17, <1>18, <1>19

\* What a conversion is replaced with.
LEMMA ConvertedMeans ==
  ASSUME NEW item \in Item, item.letter \notin {"plain", "%"}, NEW f, f.zero = item.zero,
         f.before = (IF item.width > 0 THEN item.width ELSE -1), Head(f.args) = item
  PROVE  Converted(item.letter, f) = Meaning(item)
<1>1. f.before \in Int /\ (f.before = item.width \/ (f.before = -1 /\ item.width = 0))
  <2>1. PICK w \in 0 .. 9 : w = item.width
    BY ItemIs
  <2>2. f.before = IF w > 0 THEN w ELSE -1
    BY <2>1
  <2>3. CASE w > 0
    BY <2>1, <2>2, <2>3
  <2>4. CASE w = 0
    <3>1. f.before = -1
      BY <2>2, <2>4
    <3> QED
      BY <2>1, <2>4, <3>1
  <2> QED
    BY <2>3, <2>4
<1>2. CASE item.letter \in Numeric
  <2>1. Integer(item.letter, f, item.n) = Meaning(item)
    BY <1>2, IntegerMeans
  <2>2. Converted(item.letter, f) = Integer(item.letter, f, item.n)
    BY <1>2, Zenon DEF Converted, Numeric
  <2> QED
    BY <2>1, <2>2
<1>3. CASE item.letter \in {"c", "s"}
  <2>1. PICK t \in Seq(Char), w \in 0 .. 9 : t = Upto(item.s) /\ w = item.width /\
          Len(t) \in Nat
    <3>1. Upto(item.s) \in Seq(Char) /\ item.width \in 0 .. 9
      BY ItemIs, UptoIs
    <3>2. Len(Upto(item.s)) \in Nat
      BY <3>1, LenProperties
    <3> QED
      BY <3>1, <3>2
  <2>2. PICK b \in Int : b = f.before /\ (b = w \/ (b = -1 /\ w = 0))
    BY <1>1, <2>1
  <2>3. [i \in 1 .. b - Len(t) |-> " "] = [i \in 1 .. w - Len(t) |-> " "]
    <3>1. b - Len(t) \in Int /\ w - Len(t) \in Int /\
            (b = w \/ (b - Len(t) <= 0 /\ w - Len(t) <= 0))
      <4>1. PICK y \in Nat : y = Len(t)
        BY <2>1
      <4>2. b - y \in Int /\ w - y \in Int
        OBVIOUS
      <4>3. b = w \/ (b - y <= 0 /\ w - y <= 0)
        BY <2>2
      <4> QED
        BY <4>1, <4>2, <4>3
    <3>2. " " \in Char
      BY OwnChars, Zenon DEF Own
    <3> QED
      BY <3>1, <3>2, Blanks, Zenon
  <2>4. Meaning(item) = Padding(item, " ", Len(Upto(item.s))) \o Upto(item.s)
    <3>1. item.letter \notin {"plain", "%"}
      OBVIOUS
    <3> QED
      BY <1>3, Zenon DEF Meaning
  <2>5. Padding(item, " ", Len(Upto(item.s))) = [i \in 1 .. w - Len(t) |-> " "]
    BY <2>1 DEF Padding
  <2>6. Meaning(item) = [i \in 1 .. b - Len(t) |-> " "] \o t
    BY <2>1, <2>3, <2>4, <2>5, Zenon
  <2>7. CASE item.letter = "s"
    <3>1. Converted("s", f) = Repeat(" ", b - Len(t)) \o t
      BY <2>1, <2>2, Zenon DEF Converted
    <3>2. Repeat(" ", b - Len(t)) = [i \in 1 .. b - Len(t) |-> " "]
      BY DEF Repeat
    <3> QED
      BY <2>6, <2>7, <3>1, <3>2, Zenon
  <2>8. CASE item.letter = "c"
    <3>1. t = item.s /\ Len(t) = 1
      <4>1. item.s \in Seq(Char) /\ Len(item.s) = 1 /\ item.s[1] # NUL
        BY <2>8, ItemIs
      <4> QED
        BY <2>1, <4>1, UptoIs
    <3>2. Converted("c", f) = Repeat(" ", b - 1) \o item.s
      BY <2>2, Zenon DEF Converted
    <3>3. Repeat(" ", b - 1) = [i \in 1 .. b - Len(t) |-> " "]
      BY <3>1 DEF Repeat
    <3> QED
      BY <2>6, <2>8, <3>1, <3>2, <3>3, Zenon
  <2> QED
    BY <1>3, <2>7, <2>8
<1> QED
  BY <1>2, <1>3, ItemIs

\* The meaning of every item is a text.
LEMMA MeaningTyped ==
  ASSUME NEW item \in Item
  PROVE  /\ Meaning(item) \in Seq(Char)
         /\ item.letter = "plain" => Meaning(item) = <<item.s[1]>> /\ item.s[1] \in Char
         /\ item.letter = "%" => Meaning(item) = <<"%">>
<1>1. CASE item.letter = "plain"
  <2>1. Meaning(item) = item.s /\ item.s \in Seq(Char) /\ Len(item.s) = 1
    BY <1>1, ItemIs DEF Meaning
  <2>2. item.s = <<item.s[1]>> /\ item.s[1] \in Char
    BY <2>1
  <2> QED
    BY <1>1, <2>1, <2>2
<1>2. CASE item.letter = "%"
  <2>1. Meaning(item) = <<"%">>
    BY <1>2 DEF Meaning
  <2>2. "%" \in Char
    BY OwnChars, Zenon DEF Own
  <2>3. <<"%">> \in Seq(Char)
    BY <2>2
  <2> QED
    BY <1>2, <2>1, <2>3
<1>3. CASE item.letter \in {"c", "s"}
  <2>1. PICK t \in Seq(Char), r \in Int : t = Upto(item.s) /\ r = item.width - Len(t)
    <3>1. Upto(item.s) \in Seq(Char) /\ item.width \in 0 .. 9
      BY ItemIs, UptoIs
    <3>2. item.width - Len(Upto(item.s)) \in Int
      BY <3>1
    <3> QED
      BY <3>1, <3>2
  <2>2. [i \in 1 .. r |-> " "] \in Seq(Char)
    <3>1. " " \in Char
      BY OwnChars, Zenon DEF Own
    <3> QED
      BY <3>1, Blanks, Zenon
  <2>3. Meaning(item) = [i \in 1 .. r |-> " "] \o t
    <3>1. item.letter \notin {"plain", "%"}
      BY <1>3
    <3> QED
      BY <1>3, <2>1, <3>1, Zenon DEF Meaning, Padding
  <2>4. [i \in 1 .. r |-> " "] \o t \in Seq(Char)
    BY <2>2, ConcatProperties, Zenon
  <2> QED
    BY <1>3, <2>3, <2>4, Zenon
<1>4. CASE item.letter \in Numeric
  <2>1. Meaning(item) \in Seq(Char)
    <3>1. PICK f : f =
            [zero |-> item.zero, before |-> IF item.width > 0 THEN item.width ELSE -1]
      OBVIOUS
    <3>2. f.zero = item.zero /\ f.before = IF item.width > 0 THEN item.width ELSE -1
      BY <3>1
    <3> QED
      BY <1>4, <3>2, IntegerMeans
  <2> QED
    BY <1>4, <2>1 DEF Numeric
<1> QED
  BY <1>1, <1>2, <1>3, <1>4, ItemIs

\* The digits of a number above zero: the highest is not nought, and those above are.
LEMMA HighestDigit ==
  ASSUME NEW n \in 1 .. LONG - 1, NEW k \in Nat \ {0}, Long(n, 16, k)
  PROVE  /\ k - 1 \in 0 .. BITS \div 4 - 1
         /\ (n \div Power(16, k - 1)) % 16 # 0
         /\ \A j \in Nat : j >= k => (n \div Power(16, j)) % 16 = 0
<1>1. 16 \in Nat /\ 16 \in Nat \ {0} /\ k - 1 \in Nat /\ (k - 1) + 1 = k /\ n \in Nat /\ n # 0
  BY LongIs
<1>2. PICK p \in Nat \ {0} : p = Power(16, k - 1) /\ Power(16, k) = 16 * p
  <2>1. Power(16, k - 1) \in Nat \ {0}
    BY <1>1, PowersAdd
  <2>2. Power(16, (k - 1) + 1) = 16 * Power(16, k - 1)
    BY <1>1, PowerIs
  <2> QED
    BY <1>1, <2>1, <2>2
<1>3. p <= n /\ n < 16 * p
  <2>1. k = 1 => p = 1
    <3>1. Power(16, 0) = 1
      BY <1>1, PowerIs
    <3> QED
      BY <1>2, <3>1
  <2> QED
    BY <1>1, <1>2, <2>1 DEF Long
<1>4. (n \div p) % 16 # 0
  <2>1. PICK a \in Nat, r \in 0 .. p - 1 : a = n \div p /\ n = a * p + r
    <3>1. n \div p \in Nat /\ n % p \in 0 .. p - 1 /\ n = (n \div p) * p + (n % p)
      BY <1>1, Parts
    <3> QED
      BY <3>1
  <2>2. a # 0
    BY <1>3, <2>1
  <2>3. a < 16
    <3> SUFFICES ASSUME a >= 16 PROVE FALSE
      OBVIOUS
    <3>1. PICK e \in Nat : a = 16 + e
      <4>1. a - 16 \in Nat /\ a = 16 + (a - 16)
        OBVIOUS
      <4> QED
        BY <4>1
    <3>2. PICK x \in Nat : x = e * p
      OBVIOUS
    <3>3. a * p = 16 * p + x
      BY <3>1, <3>2
    <3> QED
      BY <1>3, <2>1, <3>2, <3>3
  <2> QED
    BY <2>1, <2>2, <2>3
<1>5. ASSUME NEW j \in Nat, j >= k PROVE (n \div Power(16, j)) % 16 = 0
  <2>1. PICK q \in Nat \ {0} : q = Power(16, j)
    BY <1>1, PowersAdd
  <2>2. n < q
    <3>1. Power(16, k) <= Power(16, j)
      BY <1>1, <1>5, PowersGrow
    <3> QED
      BY <1>1, <1>2, <1>3, <2>1, <3>1
  <2>3. n = 0 * q + n /\ 0 \in Nat /\ n \in 0 .. q - 1
    BY <1>1, <2>2
  <2>4. n \div q = 0
    BY <2>3, OneWay
  <2> QED
    BY <2>1, <2>4
<1>6. k - 1 < BITS \div 4
  <2>1. PICK m \in Nat : m = BITS \div 4 /\ BITS = 4 * m
    <3>1. BITS \div 4 \in Nat /\ BITS = 4 * (BITS \div 4)
      BY LongIs
    <3> QED
      BY <3>1
  <2>2. LONG = Power(16, m)
    BY <2>1, PowersOfBases DEF LONG
  <2> SUFFICES ASSUME k - 1 >= m PROVE FALSE
    BY <1>1, <2>1
  <2>3. Power(16, m) <= p
    BY <1>1, <1>2, PowersGrow
  <2> QED
    BY <1>3, <2>2, <2>3, LongIs
<1> QED
  BY <1>1, <1>2, <1>4, <1>5, <1>6, LongIs

\* A hexadecimal of alt_printf() is the numeral.
LEMMA HexIs ==
  ASSUME NEW n \in 0 .. LONG - 1
  PROVE  Hex(n) = Numeral(n, 16, FALSE)
<1>1. 16 \in Nat /\ 16 \in Bases /\ n \in Nat
  BY LongIs DEF Bases
<1>2. PICK k \in Nat \ {0} : k = DigitCount(n, 16) /\ Long(n, 16, k) /\
        Numeral(n, 16, FALSE) = DigitsOf(n, 16, FALSE, k)
  <2>1. DigitCount(n, 16) \in Nat \ {0} /\ Numeral(n, 16, FALSE) =
          DigitsOf(n, 16, FALSE, DigitCount(n, 16))
    BY <1>1, NumeralIs
  <2>2. Long(n, 16, DigitCount(n, 16))
    BY <1>1, CountIsLong
  <2> QED
    BY <2>1, <2>2
<1>3. Alphabet(FALSE) = Lower
  BY DEF Alphabet
<1>4. CASE n = 0
  <2>1. k = 1
    BY <1>1, <1>2, <1>4, CountsByDividing
  <2>2. DigitsOf(0, 16, FALSE, 1) = <<Lower[1]>>
    <3>1. Power(16, 0) = 1
      BY <1>1, PowerIs
    <3>2. \A i \in 1 .. 1 : 1 - i = 0
      OBVIOUS
    <3>3. ((0 \div Power(16, 0)) % 16) + 1 = 1
      BY <3>1
    <3>4. \A i \in 1 .. 1 : Lower[((0 \div Power(16, 1 - i)) % 16) + 1] = Lower[1]
      BY <3>2, <3>3
    <3>5. DigitsOf(0, 16, FALSE, 1) =
            [i \in 1 .. 1 |-> Lower[((0 \div Power(16, 1 - i)) % 16) + 1]]
      BY <1>3 DEF DigitsOf
    <3>6. [i \in 1 .. 1 |-> Lower[((0 \div Power(16, 1 - i)) % 16) + 1]] =
            [i \in 1 .. 1 |-> Lower[1]]
      BY <3>4
    <3>7. [i \in 1 .. 1 |-> Lower[1]] = <<Lower[1]>>
      OBVIOUS
    <3> QED
      BY <3>5, <3>6, <3>7
  <2>3. Lower[1] = "0"
    <3>1. 1 \in 1 .. 16
      OBVIOUS
    <3> QED
      BY <1>3, <3>1, AlphabetIs
  <2>4. Hex(0) = <<"0">>
    BY DEF Hex
  <2> QED
    BY <1>2, <1>4, <2>1, <2>2, <2>3, <2>4
<1>5. CASE n # 0
  <2> DEFINE T == {i \in 0 .. BITS \div 4 - 1 : (n \div Power(2, 4 * i)) % 16 # 0}
  <2>1. \A i \in Nat : Power(2, 4 * i) = Power(16, i)
    BY PowersOfBases
  <2>2. n \in 1 .. LONG - 1
    BY <1>1, <1>5
  <2>3. /\ k - 1 \in 0 .. BITS \div 4 - 1 /\ (n \div Power(16, k - 1)) % 16 # 0
        /\ \A j \in Nat : j >= k => (n \div Power(16, j)) % 16 = 0
    BY <1>2, <2>2, HighestDigit
  <2>4. k - 1 \in T
    <3>1. k - 1 \in Nat
      BY <1>2
    <3>2. Power(2, 4 * (k - 1)) = Power(16, k - 1)
      BY <2>1, <3>1
    <3> QED
      BY <2>3, <3>2
  <2>5. \A i \in T : i \in Nat /\ i <= k - 1
    <3> SUFFICES ASSUME NEW i \in T PROVE i \in Nat /\ i <= k - 1
      OBVIOUS
    <3>1. i \in Nat
      OBVIOUS
    <3>2. (n \div Power(16, i)) % 16 # 0
      BY <2>1, <3>1
    <3> HIDE DEF T
    <3>3. ~(i >= k)
      BY <2>3, <3>1, <3>2
    <3> QED
      BY <1>2, <3>1, <3>3
  <2>6. Max(T) = k - 1
    <3> HIDE DEF T
    <3>1. \A y \in T : k - 1 >= y
      BY <1>2, <2>5
    <3>2. ASSUME NEW x \in T, \A y \in T : x >= y PROVE x = k - 1
      <4>1. x \in Nat /\ x <= k - 1
        BY <2>5
      <4>2. x >= k - 1
        BY <2>4, <3>2
      <4> QED
        BY <1>2, <4>1, <4>2
    <3> QED
      BY <2>4, <3>1, <3>2 DEF Max
  <2>7. Hex(n) =
          [i \in 1 .. (k - 1) + 1 |-> Lower[((n \div Power(2, 4 * ((k - 1) + 1 - i))) % 16) + 1]]
    BY <1>5, <2>6 DEF Hex
  <2>8. (k - 1) + 1 = k
    BY <1>2
  <2>9. ASSUME NEW i \in 1 .. k
        PROVE  Lower[((n \div Power(2, 4 * ((k - 1) + 1 - i))) % 16) + 1]
                 = Alphabet(FALSE)[((n \div Power(16, k - i)) % 16) + 1]
    <3>1. k - i \in Nat /\ (k - 1) + 1 - i = k - i
      BY <1>2
    <3>2. Power(2, 4 * (k - i)) = Power(16, k - i)
      BY <2>1, <3>1
    <3> QED
      BY <1>3, <3>1, <3>2
  <2>10. Hex(n) = DigitsOf(n, 16, FALSE, k)
    BY <2>7, <2>8, <2>9 DEF DigitsOf
  <2> QED
    BY <1>2, <2>10
<1> QED
  BY <1>4, <1>5

\* What alt_printf() says for a conversion without a field is what it means.
LEMMA SimpleMeans ==
  ASSUME NEW item \in Item, Simple(item)
  PROVE  /\ item.letter = "x" => Meaning(item) = Hex(item.n)
         /\ item.letter \in {"c", "s"} => Meaning(item) = Upto(item.s)
<1>1. CASE item.letter = "x"
  <2>1. Hex(item.n) = Numeral(item.n, 16, FALSE)
    BY HexIs, ItemIs
  <2>2. PICK d \in Seq(Char) : d = Numeral(item.n, 16, FALSE)
    <3>1. 16 \in Bases
      BY DEF Bases
    <3> QED
      BY <3>1, NumeralIs, ItemIs
  <2>3. item.width = 0 /\ ~item.zero
    BY DEF Simple
  <2>4. Meaning(item) = Numbery(item)
    BY <1>1 DEF Meaning
  <2>5. Sign(FALSE) = <<>> /\ Len(<<>>) = 0
    BY EmptySeq DEF Sign
  <2>6. Padding(item, " ", 0 + Len(d)) = <<>>
    <3>1. item.width - (0 + Len(d)) \in Int /\ item.width - (0 + Len(d)) <= 0
      BY <2>3, LenProperties
    <3>2. " " \in Char
      BY OwnChars, Zenon DEF Own
    <3> QED
      BY <3>1, <3>2, Blanks, Zenon DEF Padding
  <2>7. Base("x") = 16
    BY DEF Base
  <2>8. Numbery(item) = <<>> \o (<<>> \o d)
    <3>1. (item.letter \in {"d", "i"} /\ TwosComplement(item.n) < 0) = FALSE
      BY <1>1
    <3>2. ("x" = "X") = FALSE
      OBVIOUS
    <3> QED
      BY <1>1, <2>2, <2>3, <2>5, <2>6, <2>7, <3>1, <3>2, Zenon DEF Numbery
  <2>9. <<>> \o (<<>> \o d) = d
    BY ConcatEmptySeq
  <2> QED
    BY <1>1, <2>1, <2>2, <2>4, <2>8, <2>9
<1>2. CASE item.letter \in {"c", "s"}
  <2>1. PICK t \in Seq(Char) : t = Upto(item.s)
    BY ItemIs, UptoIs
  <2>2. item.width = 0
    BY DEF Simple
  <2>3. Padding(item, " ", Len(t)) = <<>>
    <3>1. item.width - Len(t) \in Int /\ item.width - Len(t) <= 0
      BY <2>2, LenProperties
    <3>2. " " \in Char
      BY OwnChars, Zenon DEF Own
    <3> QED
      BY <3>1, <3>2, Blanks, Zenon DEF Padding
  <2>4. Meaning(item) = <<>> \o t
    BY <1>2, <2>1, <2>3, Zenon DEF Meaning
  <2> QED
    BY <1>2, <2>1, <2>4, ConcatEmptySeq
<1> QED
  BY <1>1, <1>2

\* Sequences put together one after the other.
LEMMA FlatIs ==
  ASSUME NEW S, NEW seqs \in Seq(Seq(S)), seqs # <<>>
  PROVE  /\ Len(seqs) \in Nat \ {0}
         /\ \E f \in [1 .. Len(seqs) -> Seq(S)] :
              /\ f[1] = seqs[1] /\ FlattenSeq(seqs) = f[Len(seqs)]
              /\ \A i \in 1 .. Len(seqs) : i # 1 => f[i] = f[i - 1] \o seqs[i]
<1>1. PICK n \in Nat \ {0} : n = Len(seqs)
  BY EmptySeq
<1> DEFINE q == CHOOSE f : f = [i \in 1 .. n |-> IF i =
    1 THEN seqs[i] ELSE f[i - 1] \o seqs[i]]
           r == [x \in 1 .. n |-> x]
           nx == [x \in 1 .. n |-> x - 1]
           h == [x \in 1 .. n |-> [y \in Seq(S) |-> y \o seqs[x]]]
<1>2. FlattenSeq(seqs) = q[n]
  <2>1. n # 0
    OBVIOUS
  <2> QED
    BY <1>1, <2>1, Zenon DEF FlattenSeq
<1>3. \A x \in 1 .. n : seqs[x] \in Seq(S)
  BY <1>1, ElementOfSeq
<1>4. r \in [1 .. n -> Nat] /\ \A x \in 1 .. n : x \in {1} => seqs[x] \in Seq(S)
  BY <1>3
<1>5. ASSUME NEW x \in 1 .. n, x \notin {1}
      PROVE  /\ nx[x] = x - 1 /\ nx[x] \in 1 .. n /\ r[nx[x]] < r[x]
             /\ \A y \in Seq(S) : h[x][y] = y \o seqs[x] /\ h[x][y] \in Seq(S)
  <2>1. x - 1 \in 1 .. n /\ x - 1 < x
    BY <1>5
  <2>2. \A y \in Seq(S) : y \o seqs[x] \in Seq(S)
    BY <1>3, ConcatProperties
  <2>3. nx[x] = x - 1 /\ r[x - 1] = x - 1 /\ r[x] = x
    BY <2>1
  <2>4. \A y \in Seq(S) : h[x][y] = y \o seqs[x]
    OBVIOUS
  <2> HIDE DEF nx, r, h
  <2> QED
    BY <2>1, <2>2, <2>3, <2>4
<1>6. Falls(1 .. n, Seq(S), r, nx, h, {1}, seqs)
  <2>1. <<>> \in Seq(S)
    BY EmptySeq
  <2> HIDE DEF nx, r, h
  <2> QED
    BY <1>4, <1>5, <2>1 DEF Falls
<1>7. PICK f \in [1 .. n -> Seq(S)] : \A x \in 1 .. n : f[x] =
        IF x \in {1} THEN seqs[x] ELSE h[x][f[nx[x]]]
  <2> HIDE DEF nx, r, h
  <2>1. PICK D, B, R : D = 1 .. n /\ B = {1} /\ R = Seq(S)
    OBVIOUS
  <2>2. Falls(D, R, r, nx, h, B, seqs)
    BY <1>6, <2>1, Zenon
  <2>3. \E f \in [D -> R] : \A x \in D : f[x] = IF x \in B THEN seqs[x] ELSE h[x][f[nx[x]]]
    BY <2>2, Recursion
  <2> QED
    BY <2>1, <2>3, ZenonT(40)
<1>8. ASSUME NEW x \in 1 .. n PROVE f[x] = IF x = 1 THEN seqs[x] ELSE f[x - 1] \o seqs[x]
  <2>1. CASE x \in {1}
    BY <1>7, <2>1
  <2>2. CASE x \notin {1}
    <3> HIDE DEF nx, r, h
    <3>1. nx[x] = x - 1 /\ x - 1 \in 1 .. n
      BY <1>5, <2>2
    <3>2. f[x - 1] \in Seq(S)
      BY <1>7, <3>1
    <3>3. f[x] = h[x][f[x - 1]]
      BY <1>7, <2>2, <3>1
    <3>4. h[x][f[x - 1]] = f[x - 1] \o seqs[x]
      BY <1>5, <2>2, <3>2
    <3>5. x # 1
      BY <2>2
    <3> QED
      BY <3>3, <3>4, <3>5
  <2> QED
    BY <2>1, <2>2
<1>9. f = [i \in 1 .. n |-> IF i = 1 THEN seqs[i] ELSE f[i - 1] \o seqs[i]]
  BY <1>8, Zenon
<1>10. q = [i \in 1 .. n |-> IF i = 1 THEN seqs[i] ELSE q[i - 1] \o seqs[i]]
  BY <1>9, Zenon
<1> HIDE DEF q
<1>11. /\ q[1] = seqs[1] /\ DOMAIN q = 1 .. n
       /\ \A i \in 1 .. n : q[i] = IF i = 1 THEN seqs[i] ELSE q[i - 1] \o seqs[i]
  <2>1. 1 \in 1 .. n
    BY <1>1
  <2>2. \A i \in 1 .. n : q[i] = IF i = 1 THEN seqs[i] ELSE q[i - 1] \o seqs[i]
    BY <1>10
  <2> QED
    BY <1>10, <2>1, <2>2
<1>12. \A i \in 1 .. n : q[i] \in Seq(S)
  <2> DEFINE A == {i \in Nat : i \in 1 .. n => q[i] \in Seq(S)}
  <2>1. 0 \in A
    BY <1>1
  <2>2. ASSUME NEW i \in Nat, i \in A PROVE i + 1 \in A
    <3> SUFFICES ASSUME i + 1 \in 1 .. n PROVE q[i + 1] \in Seq(S)
      OBVIOUS
    <3>1. CASE i = 0
      BY <1>3, <1>11, <3>1
    <3>2. CASE i # 0
      <4>1. i \in 1 .. n /\ i + 1 # 1 /\ (i + 1) - 1 = i
        BY <3>2
      <4>2. q[i] \in Seq(S)
        BY <2>2, <4>1
      <4>3. q[i + 1] = q[i] \o seqs[i + 1]
        <5>1. q[i + 1] = IF i + 1 = 1 THEN seqs[i + 1] ELSE q[(i + 1) - 1] \o seqs[i + 1]
          BY <1>11
        <5> QED
          BY <4>1, <5>1
      <4>4. seqs[i + 1] \in Seq(S)
        BY <1>3
      <4> QED
        BY <4>2, <4>3, <4>4, ConcatProperties
    <3> QED
      BY <3>1, <3>2
  <2> HIDE DEF A
  <2>3. \A i \in Nat : i \in A
    BY <2>1, <2>2, Climbs
  <2> QED
    BY <2>3 DEF A
<1>13. q = [i \in 1 .. n |-> q[i]]
  BY <1>10
<1>14. q \in [1 .. n -> Seq(S)]
  BY <1>12, <1>13
<1>15. \A i \in 1 .. n : i # 1 => q[i] = q[i - 1] \o seqs[i]
  BY <1>11
<1> QED
  BY <1>1, <1>2, <1>11, <1>14, <1>15

\* One more sequence comes after the others.
LEMMA FlatAppend ==
  ASSUME NEW S, NEW s \in Seq(Seq(S)), NEW e \in Seq(S)
  PROVE  /\ FlattenSeq(<<>>) = <<>> /\ FlattenSeq(s) \in Seq(S)
         /\ FlattenSeq(Append(s, e)) = FlattenSeq(s) \o e
<1>1. FlattenSeq(<<>>) = <<>>
  BY DEF FlattenSeq
<1>2. PICK m \in Nat : m = Len(s)
  BY LenProperties
<1>3. PICK t \in Seq(Seq(S)) : t = Append(s, e) /\ Len(t) = m + 1 /\ t # <<>>
                               /\ t[m + 1] = e /\ \A i \in 1 .. m : t[i] = s[i]
  <2>1. Append(s, e) \in Seq(Seq(S)) /\ Append(s, e) # << >> /\ Len(Append(s, e)) = Len(s) + 1
        /\ Append(s, e)[Len(s) + 1] = e /\ \A i \in 1 .. Len(s) : Append(s, e)[i] = s[i]
    BY AppendProperties
  <2> QED
    BY <1>2, <2>1
<1>4. PICK f \in [1 .. m + 1 -> Seq(S)] : f[1] = t[1] /\ FlattenSeq(t) = f[m + 1]
                                        /\ \A i \in 1 .. m + 1 : i # 1 =>
                                            f[i] = f[i - 1] \o t[i]
  <2> DEFINE Flat(n) == \E f \in [1 .. n -> Seq(S)] :
               /\ f[1] = t[1] /\ FlattenSeq(t) = f[n]
               /\ \A i \in 1 .. n : i # 1 => f[i] = f[i - 1] \o t[i]
  <2>1. Flat(Len(t))
    <3>1. t # <<>>
      BY <1>3
    <3> QED
      BY <3>1, FlatIs
  <2>2. Len(t) = m + 1
    BY <1>3
  <2> HIDE DEF Flat
  <2>3. Flat(m + 1)
    BY <2>1, <2>2
  <2> QED
    BY <2>3 DEF Flat
<1>5. CASE s = <<>>
  <2>1. m = 0
    BY <1>2, <1>5, EmptySeq
  <2>2. FlattenSeq(t) = e
    BY <1>3, <1>4, <2>1
  <2> QED
    BY <1>1, <1>3, <1>5, <2>2, EmptySeq, ConcatEmptySeq
<1>6. CASE s # <<>>
  <2>1. m # 0
    BY <1>2, <1>6, EmptySeq
  <2>2. PICK g \in [1 .. m -> Seq(S)] : g[1] = s[1] /\ FlattenSeq(s) = g[m]
                                      /\ \A i \in 1 .. m : i # 1 => g[i] = g[i - 1] \o s[i]
    <3>1. \E g \in [1 .. Len(s) -> Seq(S)] :
            /\ g[1] = s[1] /\ FlattenSeq(s) = g[Len(s)]
            /\ \A i \in 1 .. Len(s) : i # 1 => g[i] = g[i - 1] \o s[i]
      BY <1>6, FlatIs
    <3> QED
      BY <1>2, <3>1, Zenon
  <2> DEFINE A == {i \in Nat : i \in 1 .. m => f[i] = g[i]}
  <2>3. 0 \in A
    OBVIOUS
  <2>4. ASSUME NEW i \in Nat, i \in A PROVE i + 1 \in A
    <3> SUFFICES ASSUME i + 1 \in 1 .. m PROVE f[i + 1] = g[i + 1]
      OBVIOUS
    <3>1. t[i + 1] = s[i + 1] /\ i + 1 \in 1 .. m + 1
      BY <1>3
    <3>2. CASE i = 0
      BY <1>4, <2>2, <3>1, <3>2, SMTT(30)
    <3>3. CASE i # 0
      <4>1. i \in 1 .. m /\ i + 1 # 1 /\ (i + 1) - 1 = i
        BY <3>3
      <4>2. f[i + 1] = f[(i + 1) - 1] \o t[i + 1]
        BY <1>4, <3>1, <4>1
      <4>3. g[i + 1] = g[(i + 1) - 1] \o s[i + 1]
        BY <2>2, <4>1
      <4>4. f[i] = g[i]
        BY <2>4, <4>1
      <4> QED
        BY <3>1, <4>1, <4>2, <4>3, <4>4
    <3> QED
      BY <3>2, <3>3
  <2> HIDE DEF A
  <2>5. \A i \in Nat : i \in A
    BY <2>3, <2>4, Climbs
  <2>6. f[m] = g[m] /\ g[m] \in Seq(S)
    BY <2>1, <2>2, <2>5 DEF A
  <2>7. f[m + 1] = f[m] \o t[m + 1]
    <3>1. m + 1 \in 1 .. m + 1 /\ m + 1 # 1 /\ (m + 1) - 1 = m
      BY <2>1
    <3>2. f[m + 1] = f[(m + 1) - 1] \o t[m + 1]
      BY <1>4, <3>1
    <3> QED
      BY <3>1, <3>2
  <2> QED
    BY <1>1, <1>3, <1>4, <2>2, <2>6, <2>7
<1> QED
  BY <1>5, <1>6

\* Two lots of sequences come one after the other.
LEMMA FlatConcat ==
  ASSUME NEW S, NEW s \in Seq(Seq(S))
  PROVE  \A t \in Seq(Seq(S)) : FlattenSeq(s \o t) = FlattenSeq(s) \o FlattenSeq(t)
<1> DEFINE A == {n \in Nat : \A t \in Seq(Seq(S)) :
                   Len(t) = n => FlattenSeq(s \o t) = FlattenSeq(s) \o FlattenSeq(t)}
<1>1. \A x, y, e \in Seq(S) : (x \o y) \o e = x \o (y \o e)
  BY ConcatAssociative, SMTT(30)
<1>2. 0 \in A
  <2> SUFFICES ASSUME NEW t \in Seq(Seq(S)), Len(t) = 0
               PROVE  FlattenSeq(s \o t) = FlattenSeq(s) \o FlattenSeq(t)
    OBVIOUS
  <2>1. t = <<>>
    BY EmptySeq
  <2>2. s \o t = s
    BY <2>1, ConcatEmptySeq
  <2>3. FlattenSeq(t) = <<>> /\ FlattenSeq(s) \in Seq(S)
    <3>1. <<>> \in Seq(S)
      BY EmptySeq
    <3> QED
      BY <2>1, <3>1, FlatAppend
  <2>4. FlattenSeq(s) \o <<>> = FlattenSeq(s)
    BY <2>3, ConcatEmptySeq
  <2> QED
    BY <2>2, <2>3, <2>4
<1>3. ASSUME NEW n \in Nat, n \in A PROVE n + 1 \in A
  <2> SUFFICES ASSUME NEW t \in Seq(Seq(S)), Len(t) = n + 1
               PROVE  FlattenSeq(s \o t) = FlattenSeq(s) \o FlattenSeq(t)
    OBVIOUS
  <2>1. t # <<>>
    BY EmptySeq
  <2>2. PICK u \in Seq(Seq(S)), e \in Seq(S) : t = Append(u, e)
    BY <2>1, SequenceEmptyOrAppend
  <2>3. Len(u) = n
    BY <2>2, AppendProperties, LenProperties
  <2>4. FlattenSeq(s \o u) = FlattenSeq(s) \o FlattenSeq(u)
    BY <1>3, <2>3
  <2>5. s \o t = Append(s \o u, e) /\ s \o u \in Seq(Seq(S))
    <3>1. Append(u, e) = u \o <<e>> /\ <<e>> \in Seq(Seq(S)) /\ s \o u \in Seq(Seq(S))
      BY AppendIsConcat, ConcatProperties
    <3>2. s \o (u \o <<e>>) = (s \o u) \o <<e>>
      BY <3>1, ConcatAssociative, SMTT(30)
    <3>3. Append(s \o u, e) = (s \o u) \o <<e>>
      BY <3>1, AppendIsConcat
    <3> QED
      BY <2>2, <3>1, <3>2, <3>3
  <2>6. FlattenSeq(s \o t) = FlattenSeq(s \o u) \o e
    BY <2>5, FlatAppend
  <2>7. FlattenSeq(t) = FlattenSeq(u) \o e /\ FlattenSeq(u) \in Seq(S) /\
          FlattenSeq(s) \in Seq(S)
    BY <2>2, FlatAppend
  <2>8. (FlattenSeq(s) \o FlattenSeq(u)) \o e = FlattenSeq(s) \o (FlattenSeq(u) \o e)
    BY <1>1, <2>7, Zenon
  <2> QED
    BY <2>4, <2>6, <2>7, <2>8
<1> HIDE DEF A
<1>4. \A n \in Nat : n \in A
  BY <1>2, <1>3, Climbs
<1> QED
  BY <1>4, LenProperties DEF A

\* What the elements of a sequence stand for, put together.
Gather(F, u) == FlattenSeq([i \in DOMAIN u |-> F[u[i]]])

\* F gives each element the sequence it stands for.
Stands(F, E, S) == \A x \in E : F[x] \in Seq(S)

\* It is a sequence, and one per element.
LEMMA GatherIs ==
  ASSUME NEW E, NEW S, NEW F, Stands(F, E, S), NEW u \in Seq(E)
  PROVE  /\ \E x \in Seq(Seq(S)) : /\ x = [i \in DOMAIN u |-> F[u[i]]]
                                   /\ Gather(F, u) = FlattenSeq(x)
                                   /\ Len(x) = Len(u) /\ \A i \in 1 .. Len(u) : x[i] = F[u[i]]
         /\ Gather(F, u) \in Seq(S) /\ Gather(F, <<>>) = <<>>
<1>1. PICK n \in Nat : n = Len(u) /\ DOMAIN u = 1 .. n /\ \A i \in 1 .. n : F[u[i]] \in Seq(S)
  <2>1. Len(u) \in Nat /\ DOMAIN u = 1 .. Len(u) /\ \A i \in 1 .. Len(u) : u[i] \in E
    BY LenProperties, ElementOfSeq
  <2>2. \A i \in 1 .. Len(u) : F[u[i]] \in Seq(S)
    BY <2>1 DEF Stands
  <2> QED
    BY <2>1, <2>2, Zenon
<1> DEFINE t == [i \in 1 .. n |-> F[u[i]]]
<1>2. t \in Seq(Seq(S)) /\ Len(t) = n /\ \A i \in 1 .. n : t[i] = F[u[i]]
  BY <1>1
<1>3. t = [i \in DOMAIN u |-> F[u[i]]]
  BY <1>1
<1> HIDE DEF t
<1>4. FlattenSeq(t) \in Seq(S) /\ FlattenSeq(<<>>) = <<>>
  <2>1. <<>> \in Seq(S)
    BY EmptySeq
  <2> QED
    BY <1>2, <2>1, FlatAppend
<1>5. [i \in DOMAIN <<>> |-> F[<<>>[i]]] = <<>>
  OBVIOUS
<1> QED
  BY <1>1, <1>2, <1>3, <1>4, <1>5, Zenon DEF Gather

\* Of two sequences it is what it is of each.
LEMMA GatherConcat ==
  ASSUME NEW E, NEW S, NEW F, Stands(F, E, S), NEW u \in Seq(E), NEW v \in Seq(E)
  PROVE  Gather(F, u \o v) = Gather(F, u) \o Gather(F, v)
<1>1. PICK m \in Nat, n \in Nat : m = Len(u) /\ n = Len(v)
  BY LenProperties
<1>2. PICK w \in Seq(E) : w = u \o v /\ Len(w) = m + n
                          /\ \A i \in 1 .. m + n : w[i] = IF i <= m THEN u[i] ELSE v[i - m]
  <2>1. u \o v \in Seq(E) /\ Len(u \o v) = Len(u) + Len(v)
        /\ \A i \in 1 .. Len(u) + Len(v) : (u \o v)[i] =
            IF i <= Len(u) THEN u[i] ELSE v[i - Len(u)]
    BY ConcatProperties
  <2> QED
    BY <1>1, <2>1
<1>3. PICK x \in Seq(Seq(S)) : Gather(F, u) = FlattenSeq(x) /\ Len(x) = Len(u) /\
        \A i \in 1 .. Len(u) : x[i] = F[u[i]]
  BY GatherIs
<1>4. PICK y \in Seq(Seq(S)) : Gather(F, v) = FlattenSeq(y) /\ Len(y) = Len(v) /\
        \A i \in 1 .. Len(v) : y[i] = F[v[i]]
  BY GatherIs
<1>5. PICK z \in Seq(Seq(S)) : Gather(F, w) = FlattenSeq(z) /\ Len(z) = Len(w) /\
        \A i \in 1 .. Len(w) : z[i] = F[w[i]]
  BY GatherIs
<1>6. z = x \o y
  <2>1. x \o y \in Seq(Seq(S)) /\ Len(x \o y) = m + n
        /\ \A i \in 1 .. m + n : (x \o y)[i] = IF i <= m THEN x[i] ELSE y[i - m]
    <3>1. x \o y \in Seq(Seq(S)) /\ Len(x \o y) = Len(x) + Len(y)
          /\ \A i \in 1 .. Len(x) + Len(y) : (x \o y)[i] =
              IF i <= Len(x) THEN x[i] ELSE y[i - Len(x)]
      BY ConcatProperties
    <3>2. Len(x) = m /\ Len(y) = n
      BY <1>1, <1>3, <1>4
    <3> QED
      BY <3>1, <3>2
  <2>2. ASSUME NEW i \in 1 .. m + n PROVE z[i] = (x \o y)[i]
    <3>1. CASE i <= m
      <4>1. i \in 1 .. m
        BY <3>1
      <4>2. z[i] = F[w[i]]
        BY <1>2, <1>5
      <4>3. x[i] = F[u[i]]
        BY <1>1, <1>3, <4>1
      <4>4. w[i] = u[i] /\ (x \o y)[i] = x[i]
        BY <1>2, <2>1, <3>1
      <4> QED
        BY <4>2, <4>3, <4>4
    <3>2. CASE ~(i <= m)
      <4>1. i - m \in 1 .. n
        BY <3>2
      <4>2. z[i] = F[w[i]]
        BY <1>2, <1>5
      <4>3. y[i - m] = F[v[i - m]]
        BY <1>1, <1>4, <4>1
      <4>4. w[i] = v[i - m] /\ (x \o y)[i] = y[i - m]
        BY <1>2, <2>1, <3>2
      <4> QED
        BY <4>2, <4>3, <4>4
    <3> QED
      BY <3>1, <3>2
  <2>3. Len(z) = Len(x \o y) /\ x \o y \in Seq(Seq(S))
    BY <1>2, <1>5, <2>1
  <2>4. \A i \in 1 .. Len(z) : z[i] = (x \o y)[i]
    BY <1>2, <1>5, <2>2
  <2> QED
    BY <2>3, <2>4, SeqEqual
<1>7. FlattenSeq(x \o y) = FlattenSeq(x) \o FlattenSeq(y)
  BY FlatConcat
<1> QED
  BY <1>2, <1>3, <1>4, <1>5, <1>6, <1>7

\* Of one element it is what that stands for.
LEMMA GatherOne ==
  ASSUME NEW E, NEW S, NEW F, Stands(F, E, S), NEW e \in E
  PROVE  Gather(F, <<e>>) = F[e]
<1>1. F[e] \in Seq(S)
  BY DEF Stands
<1> DEFINE u == <<e>>
<1>2. u \in Seq(E) /\ Len(u) = 1 /\ u[1] = e
  OBVIOUS
<1> HIDE DEF u
<1>3. PICK x \in Seq(Seq(S)) : Gather(F, u) = FlattenSeq(x) /\ Len(x) = Len(u) /\
        \A i \in 1 .. Len(u) : x[i] = F[u[i]]
  BY <1>2, GatherIs
<1>4. Len(x) = 1 /\ x[1] = F[e] /\ x # <<>>
  <2>1. Len(x) = 1
    BY <1>2, <1>3
  <2>2. x[1] = F[u[1]]
    <3>1. 1 \in 1 .. Len(u)
      BY <1>2
    <3> QED
      BY <1>3, <3>1
  <2>3. x # <<>>
    BY <2>1, EmptySeq
  <2> QED
    BY <1>2, <2>1, <2>2, <2>3
<1>5. FlattenSeq(x) = x[1]
  <2>1. \E f \in [1 .. Len(x) -> Seq(S)] :
          /\ f[1] = x[1] /\ FlattenSeq(x) = f[Len(x)]
          /\ \A i \in 1 .. Len(x) : i # 1 => f[i] = f[i - 1] \o x[i]
    BY <1>4, FlatIs, ZenonT(40)
  <2> QED
    BY <1>4, <2>1
<1> QED
  BY <1>3, <1>4, <1>5 DEF u

\* What is left of a sequence begins with what its next element stands for.
Begins(F, E, S, u, k) ==
  /\ SubSeq(u, k + 1, Len(u)) \in Seq(E)
  /\ Gather(F, SubSeq(u, k + 1, Len(u))) \in Seq(S)
  /\ k = Len(u) => Gather(F, SubSeq(u, k + 1, Len(u))) = <<>>
  /\ k = 0 => SubSeq(u, k + 1, Len(u)) = u
  /\ k # Len(u) => /\ u[k + 1] \in E /\ F[u[k + 1]] \in Seq(S)
                   /\ Gather(F, SubSeq(u, k + 1, Len(u)))
                        = F[u[k + 1]] \o Gather(F, SubSeq(u, (k + 1) + 1, Len(u)))

\* So it does.
LEMMA GatherLater ==
  ASSUME NEW E, NEW S, NEW F, Stands(F, E, S), NEW u \in Seq(E), NEW k \in 0 .. Len(u)
  PROVE  Begins(F, E, S, u, k)
<1>1. PICK n \in Nat : n = Len(u) /\ k \in 0 .. n
  BY LenProperties
<1>2. ASSUME NEW j \in 0 .. n PROVE SubSeq(u, j + 1, n) \in Seq(E)
  <2>1. \A i \in j + 1 .. n : i \in 1 .. Len(u)
    BY <1>1
  <2>2. \A i \in j + 1 .. n : u[i] \in E
    BY <2>1, ElementOfSeq
  <2>3. j + 1 \in Int /\ n \in Int
    BY <1>1
  <2> QED
    BY <2>2, <2>3, SubSeqProperties
<1>3. SubSeq(u, k + 1, n) \in Seq(E)
  BY <1>1, <1>2
<1>4. Gather(F, SubSeq(u, k + 1, n)) \in Seq(S)
  BY <1>3, GatherIs
<1>5. CASE k = n
  <2>1. SubSeq(u, k + 1, n) = <<>>
    <3>1. k + 1 \in Int /\ n \in Int /\ n < k + 1
      BY <1>1, <1>5
    <3> QED
      BY <3>1, SubSeqEmpty
  <2>2. Gather(F, <<>>) = <<>>
    BY GatherIs
  <2>3. k = 0 => u = <<>>
    BY <1>1, <1>5, EmptySeq
  <2> QED
    BY <1>1, <1>3, <1>4, <1>5, <2>1, <2>2, <2>3 DEF Begins
<1>6. CASE k # n
  <2>1. k + 1 \in 1 .. Len(u) /\ n \in k + 1 .. Len(u) /\ k + 1 \in 0 .. n
    BY <1>1, <1>6
  <2>2. SubSeq(u, k + 1, n) = <<u[k + 1]>> \o SubSeq(u, (k + 1) + 1, n)
    BY <2>1, SubSeqRecursiveFirst
  <2>3. u[k + 1] \in E
    BY <2>1, ElementOfSeq
  <2>4. SubSeq(u, (k + 1) + 1, n) \in Seq(E)
    BY <1>2, <2>1
  <2>5. <<u[k + 1]>> \in Seq(E)
    BY <2>3
  <2>6. Gather(F, <<u[k + 1]>> \o SubSeq(u, (k + 1) + 1, n))
          = Gather(F, <<u[k + 1]>>) \o Gather(F, SubSeq(u, (k + 1) + 1, n))
    <3>1. PICK a \in Seq(E), b \in Seq(E) : a = <<u[k + 1]>> /\ b = SubSeq(u, (k + 1) + 1, n)
      BY <2>4, <2>5
    <3>2. Gather(F, a \o b) = Gather(F, a) \o Gather(F, b)
      BY GatherConcat
    <3> QED
      BY <3>1, <3>2
  <2>7. Gather(F, <<u[k + 1]>>) = F[u[k + 1]]
    BY <2>3, GatherOne
  <2>8. k = 0 => SubSeq(u, k + 1, n) = u
    <3>1. SubSeq(u, 1, n) = u
      BY <1>1, SubSeqFull
    <3> QED
      BY <3>1
  <2>9. F[u[k + 1]] \in Seq(S)
    BY <2>3 DEF Stands
  <2> QED
    BY <1>1, <1>3, <1>4, <1>6, <2>2, <2>3, <2>6, <2>7, <2>8, <2>9 DEF Begins
<1> QED
  BY <1>5, <1>6

\* Elements that stand for one thing each are these things, others nothing.
Yields(F, u, t) ==
  /\ (Len(u) = Len(t) /\ \A i \in 1 .. Len(u) : F[u[i]] = <<t[i]>>) => Gather(F, u) = t
  /\ (\A i \in 1 .. Len(u) : F[u[i]] = <<>>) => Gather(F, u) = <<>>

\* So they are, put together.
LEMMA GatherEach ==
  ASSUME NEW E, NEW S, NEW F, Stands(F, E, S), NEW t \in Seq(S), NEW u \in Seq(E)
  PROVE  Yields(F, u, t)
<1> USE DEF Yields
<1>1. PICK n \in Nat : n = Len(u)
  BY LenProperties
<1>2. PICK x \in Seq(Seq(S)) : Gather(F, u) = FlattenSeq(x) /\ Len(x) = n /\
        \A i \in 1 .. n : x[i] = F[u[i]]
  <2>1. \E x \in Seq(Seq(S)) : Gather(F, u) = FlattenSeq(x) /\ Len(x) = Len(u) /\
          \A i \in 1 .. Len(u) : x[i] = F[u[i]]
    BY GatherIs
  <2> QED
    BY <1>1, <2>1
<1>3. CASE x = <<>>
  <2>1. n = 0
    BY <1>2, <1>3, EmptySeq
  <2>2. FlattenSeq(x) = <<>>
    BY <1>3 DEF FlattenSeq
  <2>3. Len(t) = 0 => t = <<>>
    BY EmptySeq
  <2> QED
    BY <1>1, <1>2, <2>1, <2>2, <2>3
<1>4. CASE x # <<>>
  <2>1. n # 0
    BY <1>2, <1>4, EmptySeq
  <2>2. PICK f \in [1 .. n -> Seq(S)] : f[1] = x[1] /\ FlattenSeq(x) = f[n]
                                      /\ \A i \in 1 .. n : i # 1 => f[i] = f[i - 1] \o x[i]
    <3>1. \E f \in [1 .. Len(x) -> Seq(S)] :
            /\ f[1] = x[1] /\ FlattenSeq(x) = f[Len(x)]
            /\ \A i \in 1 .. Len(x) : i # 1 => f[i] = f[i - 1] \o x[i]
      BY <1>4, FlatIs
    <3> QED
      BY <1>2, <3>1, Zenon
  <2>3. Gather(F, u) = f[n]
    BY <1>2, <2>2
  <2>4. ASSUME Len(t) = n, \A i \in 1 .. n : F[u[i]] = <<t[i]>> PROVE f[n] = t
    <3> DEFINE A == {i \in Nat : i \in 1 .. n => f[i] = SubSeq(t, 1, i)}
    <3>1. 0 \in A
      OBVIOUS
    <3>2. ASSUME NEW i \in Nat, i \in A PROVE i + 1 \in A
      <4> SUFFICES ASSUME i + 1 \in 1 .. n PROVE f[i + 1] = SubSeq(t, 1, i + 1)
        OBVIOUS
      <4>1. x[i + 1] = <<t[i + 1]>> /\ t[i + 1] \in S
        <5>1. i + 1 \in 1 .. Len(t)
          BY <2>4
        <5>2. t[i + 1] \in S
          BY <5>1, ElementOfSeq
        <5> QED
          BY <1>2, <2>4, <5>2
      <4>2. SubSeq(t, 1, i + 1) = SubSeq(t, 1, (i + 1) - 1) \o <<t[i + 1]>>
        <5>1. 1 \in 1 .. Len(t) /\ i + 1 \in 1 .. Len(t)
          BY <2>4
        <5> QED
          BY <5>1, SubSeqRecursiveSecond
      <4>3. (i + 1) - 1 = i
        OBVIOUS
      <4>4. CASE i = 0
        <5>1. SubSeq(t, 1, 0) = <<>>
          BY SubSeqEmpty
        <5>2. <<t[i + 1]>> \in Seq(S)
          BY <4>1
        <5>3. <<>> \o <<t[i + 1]>> = <<t[i + 1]>>
          BY <5>2, ConcatEmptySeq
        <5>4. f[i + 1] = x[i + 1]
          BY <2>2, <4>4
        <5> QED
          BY <4>1, <4>2, <4>3, <4>4, <5>1, <5>3, <5>4
      <4>5. CASE i # 0
        <5>1. i \in 1 .. n /\ i + 1 # 1
          BY <4>5
        <5>2. f[i + 1] = f[(i + 1) - 1] \o x[i + 1]
          BY <2>2, <5>1
        <5>3. f[i] = SubSeq(t, 1, i)
          BY <3>2, <5>1
        <5> QED
          BY <4>1, <4>2, <4>3, <5>2, <5>3
      <4> QED
        BY <4>4, <4>5
    <3> HIDE DEF A
    <3>3. \A i \in Nat : i \in A
      BY <3>1, <3>2, Climbs
    <3>4. f[n] = SubSeq(t, 1, n)
      <4>1. n \in 1 .. n
        BY <2>1
      <4> QED
        BY <3>3, <4>1 DEF A
    <3> QED
      BY <2>4, <3>4, SubSeqFull
  <2>5. ASSUME \A i \in 1 .. n : F[u[i]] = <<>> PROVE f[n] = <<>>
    <3> DEFINE A == {i \in Nat : i \in 1 .. n => f[i] = <<>>}
    <3>1. 0 \in A
      OBVIOUS
    <3>2. ASSUME NEW i \in Nat, i \in A PROVE i + 1 \in A
      <4> SUFFICES ASSUME i + 1 \in 1 .. n PROVE f[i + 1] = <<>>
        OBVIOUS
      <4>1. x[i + 1] = <<>>
        BY <1>2, <2>5
      <4>2. CASE i = 0
        BY <2>2, <4>1, <4>2
      <4>3. CASE i # 0
        <5>1. i \in 1 .. n /\ i + 1 # 1 /\ (i + 1) - 1 = i
          BY <4>3
        <5>2. f[i + 1] = f[(i + 1) - 1] \o x[i + 1]
          BY <2>2, <5>1
        <5>3. f[i] = <<>>
          BY <3>2, <5>1
        <5>4. <<>> \o <<>> = <<>>
          BY EmptySeq, ConcatEmptySeq
        <5> QED
          BY <4>1, <5>1, <5>2, <5>3, <5>4
      <4> QED
        BY <4>2, <4>3
    <3> HIDE DEF A
    <3>3. \A i \in Nat : i \in A
      BY <3>1, <3>2, Climbs
    <3>4. n \in 1 .. n
      BY <2>1
    <3> QED
      BY <3>3, <3>4 DEF A
  <2> QED
    BY <1>1, <2>3, <2>4, <2>5
<1> QED
  BY <1>3, <1>4

\* The format of an item.
LEMMA FormatIs ==
  ASSUME NEW item \in Item
  PROVE  /\ Zero(item) = IF item.zero THEN <<"0">> ELSE <<>>
         /\ Width(item) = IF item.width > 0 THEN <<Digits[item.width + 1]>> ELSE <<>>
         /\ Ending(item) = IF item.extra =
             <<>> THEN <<item.letter>> ELSE <<".", "2", "l", item.letter>>
         /\ item.letter # "plain" => item.letter \in Characters
         /\ Zero(item) \in Seq(Characters) /\ Width(item) \in Seq(Characters)
         /\ item.letter # "plain" => Ending(item) \in Seq(Characters)
<1>1. Own \subseteq Characters /\ "0" \in Own /\ "." \in Own /\ "2" \in Own /\ "l" \in Own
  BY OwnChars, Zenon DEF Own
<1>2. item.letter # "plain" => item.letter \in Own
  <2>1. item.letter \in {"d", "i", "u", "o", "x", "X", "plain", "%", "c", "s"}
    BY ItemIs DEF Numeric
  <2> QED
    BY <2>1, Zenon DEF Own
<1>3. Zero(item) = IF item.zero THEN <<"0">> ELSE <<>>
  BY DEF Zero
<1>4. Width(item) = IF item.width > 0 THEN <<Digits[item.width + 1]>> ELSE <<>>
  BY DEF Width
<1>5. Ending(item) = IF item.extra =
        <<>> THEN <<item.letter>> ELSE <<".", "2", "l", item.letter>>
  <2>1. CASE item.extra = <<>>
    BY <2>1 DEF Ending
  <2>2. CASE item.extra # <<>>
    <3>1. item.extra = <<".", "2", "l">>
      BY <2>2, ItemIs
    <3>2. <<".", "2", "l">> \o <<item.letter>> = <<".", "2", "l", item.letter>>
      <4>1. PICK l : l = item.letter
        OBVIOUS
      <4> DEFINE S == {".", "2", "l", l}
                 x == <<".", "2", "l">>
                 y == <<l>>
                 z == <<".", "2", "l", l>>
      <4>2. x \in Seq(S) /\ Len(x) = 3 /\ x[1] = "." /\ x[2] = "2" /\ x[3] = "l"
        OBVIOUS
      <4>3. y \in Seq(S) /\ Len(y) = 1 /\ y[1] = l
        OBVIOUS
      <4>4. z \in Seq(S) /\ Len(z) = 4 /\ z[1] = "." /\ z[2] = "2" /\ z[3] = "l" /\ z[4] = l
        OBVIOUS
      <4> HIDE DEF S, x, y, z
      <4>5. x \o y \in Seq(S) /\ Len(x \o y) = 4
            /\ \A i \in 1 .. 4 : (x \o y)[i] = IF i <= 3 THEN x[i] ELSE y[i - 3]
        <5>1. x \o y \in Seq(S) /\ Len(x \o y) = Len(x) + Len(y)
              /\ \A i \in 1 .. Len(x) + Len(y) : (x \o y)[i] =
                  IF i <= Len(x) THEN x[i] ELSE y[i - Len(x)]
          BY <4>2, <4>3, ConcatProperties
        <5> QED
          BY <4>2, <4>3, <5>1
      <4>6. \A i \in 1 .. 4 : (x \o y)[i] = z[i]
        <5>1. \A i \in 1 .. 4 : i = 1 \/ i = 2 \/ i = 3 \/ i = 4
          OBVIOUS
        <5>2. (x \o y)[1] = z[1] /\ (x \o y)[2] = z[2] /\ (x \o y)[3] = z[3] /\
                (x \o y)[4] = z[4]
          BY <4>2, <4>3, <4>4, <4>5
        <5> QED
          BY <5>1, <5>2
      <4>7. x \o y = z
        BY <4>4, <4>5, <4>6, SeqEqual
      <4> QED
        BY <4>1, <4>7 DEF x, y, z
    <3> QED
      BY <2>2, <3>1, <3>2 DEF Ending
  <2> QED
    BY <2>1, <2>2
<1>6. Zero(item) \in Seq(Characters)
  <2>1. <<"0">> \in Seq(Characters) /\ <<>> \in Seq(Characters)
    BY <1>1
  <2> QED
    BY <1>3, <2>1
<1>7. Width(item) \in Seq(Characters)
  <2>1. item.width \in 0 .. 9
    BY ItemIs
  <2>2. Digits[item.width + 1] \in Characters
    BY <2>1, DigitsAre, OwnChars
  <2>3. <<Digits[item.width + 1]>> \in Seq(Characters) /\ <<>> \in Seq(Characters)
    BY <2>2
  <2> QED
    BY <1>4, <2>3
<1>8. item.letter # "plain" => Ending(item) \in Seq(Characters)
  <2> SUFFICES ASSUME item.letter # "plain" PROVE Ending(item) \in Seq(Characters)
    OBVIOUS
  <2>1. PICK l \in Characters : l = item.letter
    BY <1>1, <1>2
  <2>2. "." \in Characters /\ "2" \in Characters /\ "l" \in Characters
    BY <1>1
  <2>3. <<l>> \in Seq(Characters) /\ <<".", "2", "l", l>> \in Seq(Characters)
    BY <2>2
  <2> QED
    BY <1>5, <2>1, <2>3
<1> QED
  BY <1>1, <1>2, <1>3, <1>4, <1>5, <1>6, <1>7, <1>8

\* What is written, given and meant by an item.
LEMMA ItemStands ==
  ASSUME NEW item \in Item
  PROVE  /\ Format(item) \in Seq(Characters) /\ Argument(item) \in Seq(Item)
         /\ Meaning(item) \in Seq(Char)
         /\ item.letter = "plain" => /\ Format(item) = <<item.s[1]>> /\ Argument(item) = <<>>
                                     /\ Meaning(item) = <<item.s[1]>> /\ item.s[1] \in Char
                                     /\ item.s[1] # "%"
         /\ item.letter # "plain" => Format(item) =
             <<"%">> \o (Zero(item) \o (Width(item) \o Ending(item)))
         /\ item.letter = "%" => Argument(item) = <<>> /\ Meaning(item) = <<"%">>
         /\ item.letter \notin {"plain", "%"} => Argument(item) = <<item>>
<1>1. Meaning(item) \in Seq(Char)
  BY MeaningTyped
<1>2. Argument(item) \in Seq(Item)
  BY DEF Argument
<1>3. CASE item.letter = "plain"
  <2>1. Format(item) = item.s /\ Meaning(item) = item.s
    BY <1>3 DEF Format, Meaning
  <2>2. Meaning(item) = <<item.s[1]>> /\ item.s[1] \in Char
    BY <1>3, MeaningTyped
  <2>3. item.s[1] # "%"
    BY <1>3, ItemIs
  <2>4. Argument(item) = <<>>
    BY <1>3 DEF Argument
  <2>5. <<item.s[1]>> \in Seq(Characters)
    BY <2>2, OwnChars
  <2> QED
    BY <1>1, <1>2, <1>3, <2>1, <2>2, <2>3, <2>4, <2>5
<1>4. CASE item.letter # "plain"
  <2>1. Format(item) = <<"%">> \o (Zero(item) \o (Width(item) \o Ending(item)))
    BY <1>4 DEF Format
  <2>2. PICK a \in Seq(Characters), b \in Seq(Characters), e \in Seq(Characters) :
          a = Zero(item) /\ b = Width(item) /\ e = Ending(item)
    BY <1>4, FormatIs
  <2>3. <<"%">> \in Seq(Characters)
    <3>1. "%" \in Characters
      BY OwnChars, Zenon DEF Own
    <3> QED
      BY <3>1
  <2>4. Format(item) \in Seq(Characters)
    <3>1. b \o e \in Seq(Characters)
      OBVIOUS
    <3>2. a \o (b \o e) \in Seq(Characters)
      BY <3>1, ConcatProperties
    <3>3. <<"%">> \o (a \o (b \o e)) \in Seq(Characters)
      BY <2>3, <3>2, ConcatProperties
    <3> QED
      BY <2>1, <2>2, <3>3
  <2>5. item.letter = "%" => Argument(item) = <<>> /\ Meaning(item) = <<"%">>
    BY MeaningTyped DEF Argument
  <2>6. item.letter \notin {"plain", "%"} => Argument(item) = <<item>>
    BY DEF Argument
  <2> QED
    BY <1>1, <1>2, <1>4, <2>1, <2>4, <2>5, <2>6
<1> QED
  BY <1>3, <1>4

\* A message is made of its items.
LEMMA MessageIs ==
  ASSUME NEW m \in Seq(Item)
  PROVE  /\ FormatOf(m) = Gather([x \in Item |-> Format(x)], m)
         /\ ArgsOf(m) = Gather([x \in Item |-> Argument(x)], m)
         /\ MeaningOf(m) = Gather([x \in Item |-> Meaning(x)], m)
<1>1. \A i \in DOMAIN m : m[i] \in Item
  BY LenProperties, ElementOfSeq
<1>2. /\ [i \in DOMAIN m |-> [x \in Item |-> Format(x)][m[i]]] =
         [i \in DOMAIN m |-> Format(m[i])]
      /\ [i \in DOMAIN m |-> [x \in Item |-> Argument(x)][m[i]]] =
          [i \in DOMAIN m |-> Argument(m[i])]
      /\ [i \in DOMAIN m |-> [x \in Item |-> Meaning(x)][m[i]]] =
          [i \in DOMAIN m |-> Meaning(m[i])]
  BY <1>1
<1> QED
  BY <1>2 DEF FormatOf, ArgsOf, MeaningOf, Gather

\* What is left of a message, and how its next item begins it.
Leads(m, k, later) ==
  /\ later \in Seq(Item)
  /\ FormatOf(later) \in Seq(Characters) /\ ArgsOf(later) \in Seq(Item)
  /\ MeaningOf(later) \in Seq(Char)
  /\ k = Len(m) => FormatOf(later) = <<>> /\ ArgsOf(later) = <<>> /\ MeaningOf(later) = <<>>
  /\ k = 0 => later = m
  /\ k # Len(m) =>
       LET item == m[k + 1]
           rest == SubSeq(m, (k + 1) + 1, Len(m))
       IN  /\ item \in Item /\ k + 1 \in 0 .. Len(m)
           /\ FormatOf(later) = Format(item) \o FormatOf(rest)
           /\ ArgsOf(later) = Argument(item) \o ArgsOf(rest)
           /\ MeaningOf(later) = Meaning(item) \o MeaningOf(rest)

\* That is how it begins.
LEMMA LaterIs ==
  ASSUME NEW m \in Seq(Item), NEW k \in 0 .. Len(m), NEW later,
         later = SubSeq(m, k + 1, Len(m))
  PROVE  Leads(m, k, later)
<1> DEFINE F == [x \in Item |-> Format(x)]
           A == [x \in Item |-> Argument(x)]
           M == [x \in Item |-> Meaning(x)]
<1>1. Stands(F, Item, Characters) /\ Stands(A, Item, Item) /\ Stands(M, Item, Char)
  BY ItemStands DEF Stands
<1>2. \A x \in Item : F[x] = Format(x) /\ A[x] = Argument(x) /\ M[x] = Meaning(x)
  OBVIOUS
<1>3. \A u \in Seq(Item) : FormatOf(u) = Gather(F, u) /\ ArgsOf(u) = Gather(A, u) /\
        MeaningOf(u) = Gather(M, u)
  BY MessageIs
<1> HIDE DEF F, A, M
<1>4. PICK n \in Nat : n = Len(m) /\ k \in 0 .. n
  BY LenProperties
<1>5. Begins(F, Item, Characters, m, k) /\ Begins(A, Item, Item, m, k) /\
        Begins(M, Item, Char, m, k)
  BY <1>1, GatherLater
<1>6. later \in Seq(Item) /\ (k = 0 => later = m)
  BY <1>5 DEF Begins
<1>7. Gather(F, later) \in Seq(Characters) /\ Gather(A, later) \in Seq(Item) /\
        Gather(M, later) \in Seq(Char)
  BY <1>5 DEF Begins
<1>8. k = Len(m) => Gather(F, later) = <<>> /\ Gather(A, later) = <<>> /\
        Gather(M, later) = <<>>
  BY <1>5 DEF Begins
<1>9. ASSUME k # Len(m)
      PROVE  LET item == m[k + 1]
                 rest == SubSeq(m, (k + 1) + 1, Len(m))
             IN  /\ item \in Item /\ k + 1 \in 0 .. Len(m)
                 /\ FormatOf(later) = Format(item) \o FormatOf(rest)
                 /\ ArgsOf(later) = Argument(item) \o ArgsOf(rest)
                 /\ MeaningOf(later) = Meaning(item) \o MeaningOf(rest)
  <2>1. k + 1 \in 0 .. Len(m)
    BY <1>4, <1>9
  <2>2. PICK item \in Item : item = m[k + 1]
    BY <1>5, <1>9 DEF Begins
  <2>3. PICK rest \in Seq(Item) : rest = SubSeq(m, (k + 1) + 1, Len(m))
    <3>1. Begins(F, Item, Characters, m, k + 1)
      BY <1>1, <2>1, GatherLater
    <3> QED
      BY <3>1 DEF Begins
  <2>4. Gather(F, later) = F[item] \o Gather(F, rest)
    <3>1. k # Len(m) => Gather(F, SubSeq(m, k + 1, Len(m)))
                          = F[m[k + 1]] \o Gather(F, SubSeq(m, (k + 1) + 1, Len(m)))
      BY <1>5 DEF Begins
    <3> QED
      BY <1>9, <2>2, <2>3, <3>1
  <2>5. Gather(A, later) = A[item] \o Gather(A, rest)
    <3>1. k # Len(m) => Gather(A, SubSeq(m, k + 1, Len(m)))
                          = A[m[k + 1]] \o Gather(A, SubSeq(m, (k + 1) + 1, Len(m)))
      BY <1>5 DEF Begins
    <3> QED
      BY <1>9, <2>2, <2>3, <3>1
  <2>6. Gather(M, later) = M[item] \o Gather(M, rest)
    <3>1. k # Len(m) => Gather(M, SubSeq(m, k + 1, Len(m)))
                          = M[m[k + 1]] \o Gather(M, SubSeq(m, (k + 1) + 1, Len(m)))
      BY <1>5 DEF Begins
    <3> QED
      BY <1>9, <2>2, <2>3, <3>1
  <2> QED
    BY <1>2, <1>3, <1>6, <2>1, <2>2, <2>3, <2>4, <2>5, <2>6
<1> QED
  BY <1>3, <1>6, <1>7, <1>8, <1>9 DEF Leads

\* A sequence that begins with an element, and what is behind it.
LEMMA HeadOf ==
  ASSUME NEW S, NEW x \in S, NEW y \in Seq(S), NEW z \in Seq(S), NEW w,
         w = (<<x>> \o y) \o z
  PROVE  w \in Seq(S) /\ w # <<>> /\ Head(w) = x /\ Tail(w) = y \o z /\ y \o z \in Seq(S)
<1>1. <<x>> \in Seq(S) /\ <<x>> # <<>>
  OBVIOUS
<1>2. PICK v \in Seq(S) : v = y \o z
  BY ConcatProperties
<1>3. (<<x>> \o y) \o z = <<x>> \o (y \o z)
  BY <1>1, ConcatAssociative
<1>4. w = <<x>> \o v
  BY <1>2, <1>3
<1>5. <<x>> \o v \in Seq(S) /\ <<x>> \o v # <<>> /\ Head(<<x>> \o v) = x /\
        Tail(<<x>> \o v) = v
  OBVIOUS
<1> QED
  BY <1>2, <1>4, <1>5

\* What one character of the format makes of a message.
TurnsInto(f, g, c, t) ==
  /\ g.fmt = t /\ g.by = f.by /\ g.id = f.id /\ g.at = f.at
  /\ g.args \in Seq(Item) /\ g.pending \in Seq(Char) => g \in Frame
  /\ f.state = "chars" /\ c = "%" =>
       /\ g.state = "firstFmtChar" /\ ~g.zero /\ g.before = -1 /\ g.after = -1
       /\ g.args = f.args /\ g.pending = f.pending
  /\ f.state = "chars" /\ c # "%" =>
       /\ g.state = "chars" /\ g.args = f.args /\ g.pending = <<c>>
  /\ f.state = "firstFmtChar" /\ c = "0" =>
       /\ g.state = "otherFmtChar" /\ g.zero /\ g.before = f.before /\ g.after = f.after
       /\ g.args = f.args /\ g.pending = f.pending
  /\ f.state = "firstFmtChar" /\ c = "%" =>
       /\ g.state = "chars" /\ g.args = f.args /\ g.pending = <<c>>
  /\ f.state = "otherFmtChar" \/ (f.state = "firstFmtChar" /\ c \notin {"0", "%"}) =>
       /\ c = "." => /\ g.state = "otherFmtChar" /\ g.zero = f.zero /\ g.before = f.before
                     /\ g.after = 0
                     /\ g.args = f.args /\ g.pending = f.pending
       /\ IsDigit(c) /\ f.after < 0 /\ f.before < 0 =>
            /\ g.state = "otherFmtChar" /\ g.zero = f.zero /\ g.before = 0 + DigitOf(c)
            /\ g.after = f.after
            /\ g.args = f.args /\ g.pending = f.pending
       /\ IsDigit(c) /\ ~(f.after < 0) =>
            /\ g.state = f.state /\ g.zero = f.zero /\ g.before = f.before
            /\ g.after = f.after * 10 + DigitOf(c)
            /\ g.args = f.args /\ g.pending = f.pending
       /\ c = "l" => /\ g.state = "otherFmtChar" /\ g.zero = f.zero /\ g.before = f.before
                     /\ g.after = f.after
                     /\ g.args = f.args /\ g.pending = f.pending
       /\ c \notin {".", "l"} /\ ~IsDigit(c) =>
            /\ g.state = "chars" /\ g.args = Tail(f.args) /\ g.pending = Converted(c, f)

\* That is what the code does.
LEMMA InterpretedIs ==
  ASSUME NEW f \in Frame, f.fmt # <<>>, NEW c, c = Head(f.fmt)
  PROVE  TurnsInto(f, Interpreted(f), c, Tail(f.fmt))
<1>1. ~IsDigit(".") /\ ~IsDigit("l")
  BY DigitsAre
<1>2. PICK t, r : t = Tail(f.fmt) /\ r = Tail(f.args)
  OBVIOUS
<1>3. t \in Seq(Characters)
  <2>1. f.fmt \in Seq(Characters) /\ f.fmt # <<>>
    BY DEF Frame
  <2> QED
    BY <1>2, <2>1, HeadTailProperties
<1>4. Eaten(f) = [f EXCEPT !.fmt = t]
  BY <1>2 DEF Eaten
<1>5. PICK e \in Frame : /\ e = Eaten(f) /\ e.fmt = t
                        /\ e.by = f.by /\ e.id = f.id /\ e.at = f.at /\ e.state = f.state
                        /\ e.args = f.args
                        /\ e.pending = f.pending /\ e.zero = f.zero /\ e.before = f.before
                        /\ e.after = f.after
  <2>1. [f EXCEPT !.fmt = t] \in Frame
    BY <1>3 DEF Frame
  <2>2. PICK h : h = [f EXCEPT !.fmt = t]
    OBVIOUS
  <2>3. /\ h.fmt = t
        /\ h.by = f.by /\ h.id = f.id /\ h.at = f.at /\ h.state = f.state /\ h.args = f.args
        /\ h.pending = f.pending /\ h.zero = f.zero /\ h.before = f.before
        /\ h.after = f.after
    BY <2>2 DEF Frame
  <2> QED
    BY <1>4, <2>1, <2>2, <2>3
<1>6. f.state \in {"chars", "firstFmtChar", "otherFmtChar"} /\ f.before \in Int /\
        f.after \in Int
  BY DEF Frame
<1>7. IsDigit(c) => DigitOf(c) \in Int
  <2> SUFFICES ASSUME IsDigit(c) PROVE DigitOf(c) \in Int
    OBVIOUS
  <2>1. \E i \in 1 .. 10 : Digits[i] = c
    BY DigitsAre DEF Digits
  <2>2. (CHOOSE i \in 1 .. 10 : Digits[i] = c) \in 1 .. 10
    BY <2>1
  <2>3. PICK i \in 1 .. 10 : i = (CHOOSE j \in 1 .. 10 : Digits[j] = c)
    BY <2>2
  <2>4. DigitOf(c) = i - 1
    BY <2>3 DEF DigitOf
  <2> QED
    BY <2>4
<1>8. CASE f.state = "chars" /\ c = "%"
  <2>1. Interpreted(f) = [e EXCEPT !.zero = FALSE, !.before = -1, !.after = -1, !.state =
          "firstFmtChar"]
    BY <1>5, <1>8 DEF Interpreted
  <2>2. PICK b \in Int, x \in Int : b = -1 /\ x = -1
    BY <1>6, <1>7
  <2>3. PICK g : g = [e EXCEPT !.zero = FALSE, !.before = b, !.after = x, !.state =
          "firstFmtChar"]
    OBVIOUS
  <2>4. g.args \in Seq(Item) /\ g.pending \in Seq(Char) => g \in Frame
    BY <2>3, <1>2, <1>5, <1>7 DEF Frame
  <2>5. Interpreted(f) = g
    BY <1>2, <1>5, <1>8, <2>1, <2>3, <2>4, <2>2
  <2>6. /\ g.fmt = t /\ g.by = f.by /\ g.id = f.id /\ g.at = f.at
        /\ g.state = "firstFmtChar" /\ g.zero = FALSE /\ g.before = b /\ g.after = x
        /\ g.args = f.args /\ g.pending = f.pending
    BY <2>3, <1>5 DEF Frame
  <2> QED
    BY <1>2, <1>5, <1>8, <2>1, <2>3, <2>4, <2>2, <2>5, <2>6 DEF TurnsInto
<1>9. CASE f.state = "chars" /\ c # "%"
  <2>1. Interpreted(f) = [e EXCEPT !.pending = <<c>>]
    BY <1>5, <1>9 DEF Interpreted
  <2>2. PICK g : g = [e EXCEPT !.pending = <<c>>]
    OBVIOUS
  <2>3. g.args \in Seq(Item) /\ g.pending \in Seq(Char) => g \in Frame
    BY <2>2, <1>2, <1>5, <1>7 DEF Frame
  <2> QED
    BY <1>2, <1>5, <1>9, <2>1, <2>2, <2>3 DEF TurnsInto, Frame
<1>10. CASE f.state = "firstFmtChar" /\ c = "0"
  <2>1. Interpreted(f) = [e EXCEPT !.zero = TRUE, !.state = "otherFmtChar"]
    BY <1>5, <1>10 DEF Interpreted
  <2>2. PICK g : g = [e EXCEPT !.zero = TRUE, !.state = "otherFmtChar"]
    OBVIOUS
  <2>3. g.args \in Seq(Item) /\ g.pending \in Seq(Char) => g \in Frame
    BY <2>2, <1>2, <1>5, <1>7 DEF Frame
  <2>4. Interpreted(f) = g
    BY <2>1, <2>2
  <2>5. /\ g.fmt = t /\ g.by = f.by /\ g.id = f.id /\ g.at = f.at
        /\ g.state = "otherFmtChar" /\ g.zero /\ g.before = f.before /\ g.after = f.after
        /\ g.args = f.args /\ g.pending = f.pending
    BY <2>2, <1>5 DEF Frame
  <2> QED
    BY <1>2, <1>5, <1>10, <2>3, <2>4, <2>5 DEF TurnsInto
<1>11. CASE f.state = "firstFmtChar" /\ c = "%"
  <2>1. Interpreted(f) = [e EXCEPT !.pending = <<c>>, !.state = "chars"]
    BY <1>5, <1>11 DEF Interpreted
  <2>2. PICK g : g = [e EXCEPT !.pending = <<c>>, !.state = "chars"]
    OBVIOUS
  <2>3. g.args \in Seq(Item) /\ g.pending \in Seq(Char) => g \in Frame
    BY <2>2, <1>2, <1>5, <1>7 DEF Frame
  <2>4. Interpreted(f) = g
    BY <2>1, <2>2
  <2>5. /\ g.fmt = t /\ g.by = f.by /\ g.id = f.id /\ g.at = f.at
        /\ g.state = "chars" /\ g.args = f.args /\ g.pending = <<c>>
    BY <2>2, <1>5 DEF Frame
  <2> QED
    BY <1>2, <1>5, <1>11, <2>3, <2>4, <2>5 DEF TurnsInto
<1>12. CASE f.state = "otherFmtChar" \/ (f.state = "firstFmtChar" /\ c \notin {"0", "%"})
  <2>1. Interpreted(f) = otherFmtChar(f)
    BY <1>12 DEF Interpreted
  <2>2. CASE c = "."
    <3>1. otherFmtChar(f) = [e EXCEPT !.after = 0, !.state = "otherFmtChar"]
      BY <1>5, <2>2, <1>1 DEF otherFmtChar
    <3>2. PICK x \in Int : x = 0
      BY <1>6, <1>7, <2>2
    <3>3. PICK g : g = [e EXCEPT !.after = x, !.state = "otherFmtChar"]
      OBVIOUS
    <3>4. g.args \in Seq(Item) /\ g.pending \in Seq(Char) => g \in Frame
      BY <3>3, <1>2, <1>5, <1>7 DEF Frame
    <3>5. Interpreted(f) = g
      BY <1>1, <1>2, <1>5, <1>12, <2>1, <2>2, <3>1, <3>3, <3>4, <3>2
    <3>6. /\ g.fmt = t /\ g.by = f.by /\ g.id = f.id /\ g.at = f.at
          /\ g.state = "otherFmtChar" /\ g.zero = f.zero /\ g.before = f.before
          /\ g.after = x /\ g.args = f.args /\ g.pending = f.pending
      BY <3>3, <1>5 DEF Frame
    <3> QED
      BY <1>1, <1>2, <1>5, <1>12, <2>1, <2>2, <3>1, <3>3, <3>4, <3>2, <3>5,
        <3>6 DEF TurnsInto
  <2>3. CASE IsDigit(c) /\ f.after < 0 /\ f.before < 0
    <3>1. otherFmtChar(f) = [e EXCEPT !.before = 0 + DigitOf(c), !.state = "otherFmtChar"]
      BY <1>5, <2>3, <1>1 DEF otherFmtChar
    <3>2. PICK b \in Int : b = 0 + DigitOf(c)
      BY <1>6, <1>7, <2>3
    <3>3. PICK g : g = [e EXCEPT !.before = b, !.state = "otherFmtChar"]
      OBVIOUS
    <3>4. g.args \in Seq(Item) /\ g.pending \in Seq(Char) => g \in Frame
      BY <3>3, <1>2, <1>5, <1>6, <1>7, <2>3 DEF Frame
    <3>5. Interpreted(f) = g
      BY <1>1, <1>2, <1>5, <1>12, <2>1, <2>3, <3>1, <3>3, <3>4, <3>2
    <3>6. /\ g.fmt = t /\ g.by = f.by /\ g.id = f.id /\ g.at = f.at
          /\ g.state = "otherFmtChar" /\ g.zero = f.zero /\ g.before = b
          /\ g.after = f.after /\ g.args = f.args /\ g.pending = f.pending
      BY <3>3, <1>5 DEF Frame
    <3> QED
      BY <1>1, <1>2, <1>5, <1>12, <2>1, <2>3, <3>1, <3>3, <3>4, <3>2, <3>5,
        <3>6 DEF TurnsInto
  <2>4. CASE IsDigit(c) /\ ~(f.after < 0)
    <3>1. otherFmtChar(f) = [e EXCEPT !.after = f.after * 10 + DigitOf(c)]
      BY <1>5, <2>4, <1>1 DEF otherFmtChar
    <3>2. PICK x \in Int : x = f.after * 10 + DigitOf(c)
      BY <1>6, <1>7, <2>4
    <3>3. PICK g : g = [e EXCEPT !.after = x]
      OBVIOUS
    <3>4. g.args \in Seq(Item) /\ g.pending \in Seq(Char) => g \in Frame
      BY <3>3, <1>2, <1>5, <1>6, <1>7, <2>4 DEF Frame
    <3>5. Interpreted(f) = g
      BY <1>1, <1>2, <1>5, <1>12, <2>1, <2>4, <3>1, <3>3, <3>4, <3>2
    <3>6. /\ g.fmt = t /\ g.by = f.by /\ g.id = f.id /\ g.at = f.at
          /\ g.state = f.state /\ g.zero = f.zero /\ g.before = f.before /\ g.after = x
          /\ g.args = f.args /\ g.pending = f.pending
      BY <3>3, <1>5 DEF Frame
    <3> QED
      BY <1>1, <1>2, <1>5, <1>12, <2>1, <2>4, <3>1, <3>3, <3>4, <3>2, <3>5,
        <3>6 DEF TurnsInto
  <2>5. CASE IsDigit(c) /\ f.after < 0 /\ ~(f.before < 0)
    <3>1. otherFmtChar(f) = [e EXCEPT !.before = f.before * 10 + DigitOf(c), !.state =
            "otherFmtChar"]
      BY <1>5, <2>5, <1>1 DEF otherFmtChar
    <3>2. PICK b \in Int : b = f.before * 10 + DigitOf(c)
      BY <1>6, <1>7, <2>5
    <3>3. PICK g : g = [e EXCEPT !.before = b, !.state = "otherFmtChar"]
      OBVIOUS
    <3>4. g.args \in Seq(Item) /\ g.pending \in Seq(Char) => g \in Frame
      BY <3>3, <1>2, <1>5, <1>6, <1>7, <2>5 DEF Frame
    <3>5. Interpreted(f) = g
      BY <1>1, <1>2, <1>5, <1>12, <2>1, <2>5, <3>1, <3>3, <3>4, <3>2
    <3>6. /\ g.fmt = t /\ g.by = f.by /\ g.id = f.id /\ g.at = f.at
          /\ g.state = "otherFmtChar" /\ g.zero = f.zero /\ g.before = b
          /\ g.after = f.after /\ g.args = f.args /\ g.pending = f.pending
      BY <3>3, <1>5 DEF Frame
    <3> QED
      BY <1>1, <1>2, <1>5, <1>12, <2>1, <2>5, <3>1, <3>3, <3>4, <3>2, <3>5,
        <3>6 DEF TurnsInto
  <2>6. CASE c = "l"
    <3>1. otherFmtChar(f) = [e EXCEPT !.state = "otherFmtChar"]
      BY <1>5, <2>6, <1>1 DEF otherFmtChar
    <3>2. PICK g : g = [e EXCEPT !.state = "otherFmtChar"]
      OBVIOUS
    <3>3. g.args \in Seq(Item) /\ g.pending \in Seq(Char) => g \in Frame
      BY <3>2, <1>2, <1>5, <1>6, <1>7, <2>6 DEF Frame
    <3> QED
      BY <1>1, <1>2, <1>5, <1>12, <2>1, <2>6, <3>1, <3>2, <3>3, SMTT(30) DEF TurnsInto, Frame
  <2>7. CASE c \notin {".", "l"} /\ ~IsDigit(c)
    <3>1. otherFmtChar(f) = [e EXCEPT !.pending = Converted(c, f), !.args = r, !.state =
            "chars"]
      BY <1>2, <1>5, <2>7, <1>1 DEF otherFmtChar
    <3>2. PICK g : g = [e EXCEPT !.pending = Converted(c, f), !.args = r, !.state = "chars"]
      OBVIOUS
    <3>3. g.args \in Seq(Item) /\ g.pending \in Seq(Char) => g \in Frame
      BY <3>2, <1>2, <1>5, <1>6, <1>7, <2>7 DEF Frame
    <3> QED
      BY <1>1, <1>2, <1>5, <1>12, <2>1, <2>7, <3>1, <3>2, <3>3, SMTT(30) DEF TurnsInto, Frame
  <2> QED
    BY <2>2, <2>3, <2>4, <2>5, <2>6, <2>7
<1> QED
  BY <1>6, <1>8, <1>9, <1>10, <1>11, <1>12

\* A message within the conversion of an item, with F of the format behind it.
Converts(f, item, F) ==
  /\ f.state # "chars" /\ f.pending = <<>>
  /\ f.state = "otherFmtChar" => item.letter # "%" /\ f.zero = item.zero
  /\ f.after >= 0 => item.extra # <<>>
  /\ \E rest \in Rests(f, item) : f.fmt = rest \o F

\* A character further it still is, or it has the meaning of the item to put out.
Goes(f, g, item, F, A) ==
  /\ f.fmt # <<>> /\ g \in Frame /\ g.by = f.by /\ g.id = f.id /\ g.at = f.at
  /\ \/ Converts(g, item, F) /\ g.args = f.args
     \/ g.state = "chars" /\ g.fmt = F /\ g.args = A /\ g.pending = Meaning(item)

\* The zero of a conversion is known, and its item is the next argument.
Decided(f, item, F, A) ==
  /\ f \in Frame /\ item \in Item /\ item.letter \notin {"plain", "%"}
  /\ F \in Seq(Characters) /\ A \in Seq(Item)
  /\ f.state \in {"firstFmtChar", "otherFmtChar"} /\ f.pending = <<>>
  /\ f.zero = item.zero /\ f.args = <<item>> \o A

\* The letters of the conversions are no digits and no marks.
LEMMA LettersAre ==
  ASSUME NEW item \in Item, item.letter # "plain"
  PROVE  /\ item.letter \in Characters /\ item.letter \notin {".", "l", "0"}
         /\ ~IsDigit(item.letter)
         /\ item.extra # <<>> => item.letter \notin {"plain", "%"}
<1>1. item.letter \in {"d", "i", "u", "o", "x", "X", "%", "c", "s"}
  BY ItemIs DEF Numeric
<1>2. item.letter \notin {".", "l", "0", "1", "2", "3", "4", "5", "6", "7", "8", "9"}
  BY <1>1
<1>3. ~IsDigit(item.letter)
  BY <1>2, DigitsAre
<1>4. item.letter \in Characters
  BY FormatIs
<1>5. item.extra # <<>> => item.letter \notin {"plain", "%"}
  BY ItemIs
<1> QED
  BY <1>2, <1>3, <1>4, <1>5

\* The letter ends a conversion.
LEMMA LetterRead ==
  ASSUME NEW f, NEW item, NEW F, NEW A, Decided(f, item, F, A),
         f.fmt = <<item.letter>> \o F,
         f.before = (IF item.width > 0 THEN item.width ELSE -1)
  PROVE  Goes(f, Interpreted(f), item, F, A)
<1>1. f \in Frame /\ item \in Item /\ F \in Seq(Characters) /\ A \in Seq(Item)
  BY DEF Decided
<1>2. PICK c \in Characters : c = item.letter
  BY <1>1, LettersAre DEF Decided
<1>3. f.fmt # <<>> /\ Head(f.fmt) = c /\ Tail(f.fmt) = F
  <2>1. f.fmt = <<c>> \o F
    BY <1>2
  <2>2. <<c>> \o F # <<>> /\ Head(<<c>> \o F) = c /\ Tail(<<c>> \o F) = F
    BY <1>1
  <2> QED
    BY <2>1, <2>2
<1>4. Head(f.args) = item /\ Tail(f.args) = A
  <2>1. Head(<<item>> \o A) = item /\ Tail(<<item>> \o A) = A
    BY <1>1
  <2> QED
    BY <2>1 DEF Decided
<1>5. c \notin {".", "l", "0", "%"} /\ ~IsDigit(c)
  BY <1>1, <1>2, LettersAre DEF Decided
<1>6. PICK g : g = Interpreted(f)
  OBVIOUS
<1>7. TurnsInto(f, g, c, F)
  BY <1>1, <1>3, <1>6, InterpretedIs
<1>8. g.state = "chars" /\ g.args = A /\ g.pending = Converted(c, f)
  BY <1>4, <1>5, <1>7 DEF TurnsInto, Decided
<1>9. Converted(c, f) = Meaning(item)
  BY <1>1, <1>2, <1>4, ConvertedMeans DEF Decided
<1>10. Meaning(item) \in Seq(Char)
  BY <1>1, MeaningTyped
<1>11. g \in Frame /\ g.fmt = F /\ g.by = f.by /\ g.id = f.id /\ g.at = f.at
  BY <1>1, <1>7, <1>8, <1>9, <1>10 DEF TurnsInto
<1> QED
  BY <1>3, <1>6, <1>8, <1>9, <1>11 DEF Goes

\* What leaves the arguments alone and the conversion on.
LEMMA GoesOn ==
  ASSUME NEW f, NEW item, NEW F, NEW A, Decided(f, item, F, A), NEW g, NEW c, NEW t,
         TurnsInto(f, g, c, t),
         f.fmt # <<>>, g.state = "otherFmtChar", g.zero = f.zero, g.args = f.args, g.pending =
             f.pending,
         g.after >= 0 => item.extra # <<>>, NEW rest \in Rests(g, item), t = rest \o F
  PROVE  Goes(f, g, item, F, A)
<1>1. <<>> \in Seq(Char)
  OBVIOUS
<1>2. f \in Frame /\ f.args \in Seq(Item)
  BY DEF Decided, Frame
<1>3. g \in Frame /\ g.by = f.by /\ g.id = f.id /\ g.at = f.at /\ g.fmt = t
  BY <1>1, <1>2 DEF TurnsInto, Decided
<1>4. Converts(g, item, F)
  BY <1>3 DEF Converts, Decided
<1> QED
  BY <1>3, <1>4 DEF Goes

\* A first element in front of a sequence.
LEMMA FirstOf ==
  ASSUME NEW S, NEW x \in S, NEW y \in Seq(S), NEW w, w = <<x>> \o y
  PROVE  w # <<>> /\ Head(w) = x /\ Tail(w) = y
OBVIOUS

\* Two elements, one after the other.
LEMMA PairOf ==
  ASSUME NEW S, NEW c \in S, NEW d \in S
  PROVE  <<c, d>> = <<c>> \o <<d>>
<1>1. PICK pc \in Seq(S), pd \in Seq(S), cd \in Seq(S) : pc = <<c>> /\ pd = <<d>> /\
        cd = <<c, d>>
  <2>1. <<c>> \in Seq(S) /\ <<d>> \in Seq(S) /\ <<c, d>> \in Seq(S)
    OBVIOUS
  <2> QED
    BY <2>1
<1>2. Len(pc) = 1 /\ pc[1] = c /\ Len(pd) = 1 /\ pd[1] = d /\ Len(cd) = 2 /\ cd[1] = c /\
        cd[2] = d
  BY <1>1
<1>3. /\ pc \o pd \in Seq(S)
      /\ Len(pc \o pd) = Len(pc) + Len(pd)
      /\ \A i \in 1 .. Len(pc) + Len(pd) : (pc \o pd)[i] =
          IF i <= Len(pc) THEN pc[i] ELSE pd[i - Len(pc)]
  BY ConcatProperties
<1>4. Len(pc \o pd) = 2 /\ (pc \o pd)[1] = c /\ (pc \o pd)[2] = d
  BY <1>2, <1>3
<1>5. \A i \in 1 .. 2 : i = 1 \/ i = 2
  OBVIOUS
<1>6. \A i \in 1 .. 2 : (pc \o pd)[i] = cd[i]
  BY <1>2, <1>4, <1>5
<1>7. cd = pc \o pd
  BY <1>2, <1>3, <1>4, <1>6, SeqEqual
<1> QED
  BY <1>1, <1>7

\* The first of some elements in front of a sequence, taken apart.
LEMMA Shift ==
  ASSUME NEW S, NEW x \in S, NEW y \in Seq(S), NEW z \in Seq(S), NEW w, w = <<x>> \o y
  PROVE  w \o z = <<x>> \o (y \o z) /\ y \o z \in Seq(S)
<1>1. PICK u \in Seq(S) : u = <<x>>
  <2>1. <<x>> \in Seq(S)
    OBVIOUS
  <2> QED
    BY <2>1
<1>2. (u \o y) \o z = u \o (y \o z)
  BY ConcatAssociative
<1>3. y \o z \in Seq(S)
  BY ConcatProperties
<1> QED
  BY <1>1, <1>2, <1>3

\* Two elements in front of a sequence, and the first of them.
LEMMA TwoOf ==
  ASSUME NEW S, NEW c \in S, NEW d \in S, NEW F \in Seq(S), NEW w, w = <<c, d>> \o F
  PROVE  w # <<>> /\ Head(w) = c /\ Tail(w) = <<d>> \o F /\ w \in Seq(S) /\
          <<d>> \o F \in Seq(S)
<1>1. PICK y \in Seq(S), v \in Seq(S) : y = <<d>> /\ v = <<c, d>>
  <2>1. <<d>> \in Seq(S) /\ <<c, d>> \in Seq(S)
    OBVIOUS
  <2> QED
    BY <2>1
<1>2. v = <<c>> \o y
  BY <1>1, PairOf
<1>3. v \o F = <<c>> \o (y \o F) /\ y \o F \in Seq(S)
  BY <1>2, Shift
<1>4. v \o F \in Seq(S)
  BY ConcatProperties
<1>5. w = <<c>> \o (y \o F)
  BY <1>1, <1>3
<1>6. PICK t \in Seq(S) : t = y \o F
  BY <1>3
<1>7. w # <<>> /\ Head(w) = c /\ Tail(w) = t
  BY <1>5, <1>6, FirstOf
<1> QED
  BY <1>1, <1>3, <1>4, <1>6, <1>7

\* Three elements in front of a sequence, and the first of them.
LEMMA ThreeOf ==
  ASSUME NEW S, NEW b \in S, NEW c \in S, NEW d \in S, NEW F \in Seq(S), NEW w,
         w = <<b, c, d>> \o F
  PROVE  w # <<>> /\ Head(w) = b /\ Tail(w) = <<c, d>> \o F /\ w \in Seq(S) /\
          <<c, d>> \o F \in Seq(S)
<1>1. PICK y \in Seq(S), v \in Seq(S) : y = <<c, d>> /\ v = <<b, c, d>>
  <2>1. <<c, d>> \in Seq(S) /\ <<b, c, d>> \in Seq(S)
    OBVIOUS
  <2> QED
    BY <2>1
<1>2. v = <<b>> \o y
  BY <1>1
<1>3. v \o F = <<b>> \o (y \o F) /\ y \o F \in Seq(S)
  BY <1>2, Shift
<1>4. v \o F \in Seq(S)
  BY ConcatProperties
<1>5. w = <<b>> \o (y \o F)
  BY <1>1, <1>3
<1>6. PICK t \in Seq(S) : t = y \o F
  BY <1>3
<1>7. w # <<>> /\ Head(w) = b /\ Tail(w) = t
  BY <1>5, <1>6, FirstOf, ZenonT(40)
<1> QED
  BY <1>1, <1>3, <1>4, <1>6, <1>7

\* Four elements in front of a sequence, and the first of them.
LEMMA FourOf ==
  ASSUME NEW S, NEW a \in S, NEW b \in S, NEW c \in S, NEW d \in S, NEW F \in Seq(S), NEW w,
         w = <<a, b, c, d>> \o F
  PROVE  w # <<>> /\ Head(w) = a /\ Tail(w) = <<b, c, d>> \o F /\ w \in Seq(S) /\
          <<b, c, d>> \o F \in Seq(S)
<1>1. PICK y \in Seq(S), v \in Seq(S) : y = <<b, c, d>> /\ v = <<a, b, c, d>>
  <2>1. <<b, c, d>> \in Seq(S) /\ <<a, b, c, d>> \in Seq(S)
    OBVIOUS
  <2> QED
    BY <2>1
<1>2. v = <<a>> \o y
  BY <1>1
<1>3. v \o F = <<a>> \o (y \o F) /\ y \o F \in Seq(S)
  BY <1>2, Shift
<1>4. v \o F \in Seq(S)
  BY ConcatProperties
<1>5. w = <<a>> \o (y \o F)
  BY <1>1, <1>3
<1>6. PICK t \in Seq(S) : t = y \o F
  BY <1>3
<1>7. w # <<>> /\ Head(w) = a /\ Tail(w) = t
  BY <1>5, <1>6, FirstOf
<1> QED
  BY <1>1, <1>3, <1>4, <1>6, <1>7

\* A digit behind the point, and the l of long, are read and forgotten.
LEMMA PrecisionRead ==
  ASSUME NEW f, NEW item, NEW F, NEW A, Decided(f, item, F, A), item.extra # <<>>,
         f.state = "otherFmtChar",
         f.before = (IF item.width > 0 THEN item.width ELSE -1), f.after >= 0,
         NEW rest \in {<<"2", "l", item.letter>>, <<"l", item.letter>>, <<item.letter>>},
         f.fmt = rest \o F
  PROVE  Goes(f, Interpreted(f), item, F, A)
<1>1. f \in Frame /\ item \in Item /\ F \in Seq(Characters) /\ A \in Seq(Item)
  BY DEF Decided
<1>2. PICK c \in Characters : c = item.letter
  BY <1>1, LettersAre DEF Decided
<1>3. "2" \in Characters /\ "l" \in Characters
  BY OwnChars, Zenon DEF Own
<1>4. f.after \in Int
  BY <1>1 DEF Frame
<1>5. PICK g : g = Interpreted(f)
  OBVIOUS
<1>6. PICK one \in Seq(Characters), two \in Seq(Characters) : one = <<c>> \o F /\
        two = <<"l", c>> \o F
  <2>1. PICK w : w = <<"l", c>> \o F
    OBVIOUS
  <2>2. w \in Seq(Characters) /\ <<c>> \o F \in Seq(Characters)
    BY <1>1, <1>3, <2>1, TwoOf
  <2> QED
    BY <2>1, <2>2
<1>7. CASE f.fmt = <<c>> \o F
  BY <1>2, <1>7, LetterRead
<1>8. CASE f.fmt = two
  <2>1. f.fmt # <<>> /\ Head(f.fmt) = "l" /\ Tail(f.fmt) = one
    BY <1>1, <1>3, <1>6, <1>8, TwoOf
  <2>2. TurnsInto(f, g, "l", one)
    BY <1>1, <1>5, <2>1, InterpretedIs
  <2>3. ~IsDigit("l")
    BY DigitsAre
  <2>4. /\ g.state = "otherFmtChar" /\ g.zero = f.zero /\ g.before = f.before
        /\ g.after = f.after
        /\ g.args = f.args /\ g.pending = f.pending
    BY <2>2 DEF TurnsInto
  <2>5. <<item.letter>> \in Rests(g, item)
    BY <1>4, <2>4 DEF Rests
  <2>6. one = <<item.letter>> \o F
    BY <1>2, <1>6
  <2> QED
    BY <1>5, <2>1, <2>2, <2>4, <2>5, <2>6, GoesOn
<1>9. CASE f.fmt = <<"2", "l", c>> \o F
  <2>1. f.fmt # <<>> /\ Head(f.fmt) = "2" /\ Tail(f.fmt) = two
    BY <1>1, <1>3, <1>6, <1>9, ThreeOf, SMTT(30)
  <2>2. TurnsInto(f, g, "2", two)
    BY <1>1, <1>5, <2>1, InterpretedIs
  <2>3. IsDigit("2") /\ DigitOf("2") = 2
    <3>1. Digits[2 + 1] = "2"
      BY DEF Digits
    <3>2. IsDigit(Digits[2 + 1]) /\ DigitOf(Digits[2 + 1]) = 2
      BY DigitsAre
    <3> QED
      BY <3>1, <3>2
  <2>4. /\ g.state = "otherFmtChar" /\ g.zero = f.zero /\ g.before = f.before
        /\ g.after = f.after * 10 + 2
        /\ g.args = f.args /\ g.pending = f.pending
    BY <1>4, <2>2, <2>3 DEF TurnsInto
  <2>5. g.after >= 0
    BY <1>4, <2>4
  <2>6. <<"l", item.letter>> \in Rests(g, item)
    BY <1>4, <2>4, <2>5 DEF Rests
  <2>7. two = <<"l", item.letter>> \o F
    BY <1>2, <1>6
  <2> QED
    BY <1>5, <2>1, <2>2, <2>4, <2>6, <2>7, GoesOn
<1> QED
  BY <1>2, <1>6, <1>7, <1>8, <1>9

\* The end of a conversion is read.
LEMMA EndingRead ==
  ASSUME NEW f, NEW item, NEW F, NEW A, Decided(f, item, F, A),
         f.before = (IF item.width > 0 THEN item.width ELSE -1), f.after < 0, f.fmt =
             Ending(item) \o F
  PROVE  Goes(f, Interpreted(f), item, F, A)
<1>1. f \in Frame /\ item \in Item /\ F \in Seq(Characters) /\ A \in Seq(Item)
  BY DEF Decided
<1>2. CASE item.extra = <<>>
  <2>1. Ending(item) = <<item.letter>>
    BY <1>1, <1>2, FormatIs
  <2> QED
    BY <2>1, LetterRead
<1>3. CASE item.extra # <<>>
  <2>1. Ending(item) = <<".", "2", "l", item.letter>>
    BY <1>1, <1>3, FormatIs
  <2>2. PICK c \in Characters : c = item.letter
    BY <1>1, LettersAre DEF Decided
  <2>3. "." \in Characters /\ "2" \in Characters /\ "l" \in Characters
    BY OwnChars, Zenon DEF Own
  <2>4. PICK three \in Seq(Characters) : three = <<"2", "l", c>> \o F
    BY <1>1, <2>2, <2>3, ThreeOf
  <2>5. f.fmt # <<>> /\ Head(f.fmt) = "." /\ Tail(f.fmt) = three
    <3>1. f.fmt = <<".", "2", "l", c>> \o F
      BY <2>1, <2>2
    <3> QED
      BY <1>1, <2>3, <2>4, <3>1, FourOf, SMTT(30)
  <2>6. PICK g : g = Interpreted(f)
    OBVIOUS
  <2>7. TurnsInto(f, g, ".", three)
    BY <1>1, <2>5, <2>6, InterpretedIs
  <2>8. ~IsDigit(".")
    <3>1. "." \notin {"0", "1", "2", "3", "4", "5", "6", "7", "8", "9"}
      OBVIOUS
    <3> QED
      BY <3>1, DigitsAre
  <2>9. /\ g.state = "otherFmtChar" /\ g.zero = f.zero /\ g.before = f.before /\ g.after = 0
         /\ g.args = f.args /\ g.pending = f.pending
    BY <2>7 DEF TurnsInto, Decided
  <2>10. <<"2", "l", item.letter>> \in Rests(g, item)
    BY <2>9 DEF Rests
  <2>11. three = <<"2", "l", item.letter>> \o F
    BY <2>2, <2>4
  <2> QED
    BY <1>3, <2>5, <2>6, <2>7, <2>9, <2>10, <2>11, GoesOn
<1> QED
  BY <1>2, <1>3

\* The width is read, and what is behind it.
LEMMA WidthRead ==
  ASSUME NEW f, NEW item, NEW F, NEW A, Decided(f, item, F, A), f.before = -1, f.after = -1,
         f.fmt = (Width(item) \o Ending(item)) \o F
  PROVE  Goes(f, Interpreted(f), item, F, A)
<1>1. f \in Frame /\ item \in Item /\ F \in Seq(Characters) /\ A \in Seq(Item)
  BY DEF Decided
<1>2. PICK e \in Seq(Characters), w \in Seq(Characters) : e = Ending(item) /\ w = Width(item)
  BY <1>1, FormatIs DEF Decided
<1>3. item.width \in 0 .. 9
  BY <1>1, ItemIs
<1>4. PICK h \in Seq(Characters) : h = e \o F
  BY <1>1, <1>2, ConcatProperties
<1>5. f.fmt = w \o h
  <2>1. F \in Seq(Characters)
    BY <1>1
  <2>2. (w \o e) \o F = w \o (e \o F)
    BY ONLY w \in Seq(Characters), e \in Seq(Characters), <2>1, ConcatAssociative
  <2> QED
    BY <1>2, <1>4, <2>2
<1>6. CASE item.width = 0
  <2>1. w = <<>>
    BY <1>1, <1>2, <1>6, FormatIs
  <2>2. <<>> \o h = h
    OBVIOUS
  <2>3. f.fmt = Ending(item) \o F
    BY <1>2, <1>4, <1>5, <2>1, <2>2
  <2> QED
    BY <1>6, <2>3, EndingRead
<1>7. CASE item.width # 0
  <2>1. PICK n \in 0 .. 9 : n = item.width /\ n > 0
    BY <1>3, <1>7
  <2>2. PICK c : c = Digits[n + 1]
    OBVIOUS
  <2>3. c \in Char /\ IsDigit(c) /\ DigitOf(c) = n /\ c \notin {".", "l", "%", "0"}
    <3>1. /\ Digits[n + 1] \in Char /\ IsDigit(Digits[n + 1]) /\ DigitOf(Digits[n + 1]) = n
          /\ Digits[n + 1] \notin {".", "l", "%"} /\ (n # 0 => Digits[n + 1] # "0")
      BY DigitsAre
    <3>2. c \in Char /\ IsDigit(c) /\ DigitOf(c) = n /\ c \notin {".", "l", "%"} /\
            (n # 0 => c # "0")
      BY <2>2, <3>1, Zenon
    <3> QED
      BY <2>1, <3>2
  <2>4. c \in Characters
    BY <2>3, OwnChars
  <2>5. w = <<c>>
    BY <1>1, <1>2, <2>1, <2>2, FormatIs
  <2>6. f.fmt # <<>> /\ Head(f.fmt) = c /\ Tail(f.fmt) = h
    BY <1>4, <1>5, <2>4, <2>5, FirstOf
  <2>7. PICK g : g = Interpreted(f)
    OBVIOUS
  <2>8. TurnsInto(f, g, c, h)
    BY <1>1, <2>6, <2>7, InterpretedIs
  <2>9. /\ g.state = "otherFmtChar" /\ g.zero = f.zero /\ g.before = 0 + DigitOf(c)
        /\ g.after = f.after
        /\ g.args = f.args /\ g.pending = f.pending
    BY <2>3, <2>8 DEF TurnsInto, Decided
  <2>10. g.before = item.width /\ g.after = -1
    BY <2>1, <2>3, <2>9
  <2>11. Ending(item) \in Rests(g, item)
    BY <1>3, <2>1, <2>9, <2>10 DEF Rests
  <2>12. ~(g.after >= 0)
    BY <2>10
  <2> QED
    BY <1>2, <1>4, <2>6, <2>7, <2>8, <2>9, <2>11, <2>12, GoesOn
<1> QED
  BY <1>6, <1>7

\* One character of a conversion.
LEMMA ConversionRead ==
  ASSUME NEW f \in Frame, NEW item \in Item, item.letter # "plain",
         NEW F \in Seq(Characters), NEW A \in Seq(Item),
         Converts(f, item, F), f.args = Argument(item) \o A
  PROVE  Goes(f, Interpreted(f), item, F, A)
<1>1. PICK rest \in Rests(f, item) : f.fmt = rest \o F
  BY DEF Converts
<1>2. f.state \in {"firstFmtChar", "otherFmtChar"} /\ f.pending = <<>>
  BY DEF Converts, Frame
<1>3. f.before \in Int /\ f.after \in Int /\ f.zero \in BOOLEAN
  BY DEF Frame
<1>4. PICK e \in Seq(Characters), w \in Seq(Characters) : e = Ending(item) /\ w = Width(item)
  BY FormatIs
<1>5. PICK we \in Seq(Characters) : we = w \o e
  BY ConcatProperties
<1>6. ASSUME item.letter # "%", f.zero = item.zero
      PROVE  Decided(f, item, F, A)
  <2>1. Argument(item) = <<item>>
    BY <1>6, ItemStands
  <2> QED
    BY <1>2, <1>6, <2>1 DEF Decided
<1>7. CASE f.state = "firstFmtChar" /\ item.letter = "%"
  <2>1. Argument(item) = <<>> /\ Meaning(item) = <<"%">>
    BY <1>7, ItemStands
  <2>2. ~item.zero /\ item.width = 0 /\ item.extra = <<>>
    BY <1>7, ItemIs
  <2>3. Zero(item) = <<>> /\ Width(item) = <<>> /\ Ending(item) = <<"%">>
    BY <1>7, <2>2, FormatIs
  <2>4. rest = <<"%">>
    <3>1. rest = Zero(item) \o (Width(item) \o Ending(item))
      BY <1>7 DEF Rests
    <3>2. <<>> \o e = e
      BY ConcatEmptySeq
    <3> QED
      BY <1>4, <2>3, <3>1, <3>2
  <2>5. "%" \in Characters /\ "%" \in Char
    BY OwnChars, Zenon DEF Own
  <2>6. f.fmt # <<>> /\ Head(f.fmt) = "%" /\ Tail(f.fmt) = F
    BY <1>1, <2>4, <2>5, FirstOf
  <2>7. PICK g : g = Interpreted(f)
    OBVIOUS
  <2>8. TurnsInto(f, g, "%", F)
    BY <2>6, <2>7, InterpretedIs
  <2>9. g.state = "chars" /\ g.args = f.args /\ g.pending = <<"%">>
    BY <1>7, <2>8 DEF TurnsInto
  <2>10. f.args = A
    <3>1. <<>> \o A = A
      BY ConcatEmptySeq
    <3> QED
      BY <2>1, <3>1
  <2>11. <<"%">> \in Seq(Char)
    BY <2>5
  <2>12. g \in Frame /\ g.fmt = F /\ g.by = f.by /\ g.id = f.id /\ g.at = f.at
    BY <2>8, <2>9, <2>10, <2>11 DEF TurnsInto
  <2> QED
    BY <2>1, <2>6, <2>7, <2>9, <2>10, <2>12 DEF Goes
<1>8. CASE f.state = "firstFmtChar" /\ item.letter # "%"
  <2>1. ~f.zero /\ f.before = -1 /\ f.after = -1 /\ rest = Zero(item) \o we
    BY <1>4, <1>5, <1>8 DEF Rests
  <2>2. CASE ~item.zero
    <3>1. Zero(item) = <<>>
      BY <2>2, FormatIs
    <3>2. <<>> \o we = we
      BY ConcatEmptySeq
    <3>3. f.fmt = (Width(item) \o Ending(item)) \o F
      BY <1>1, <1>4, <1>5, <2>1, <3>1, <3>2
    <3>4. Decided(f, item, F, A)
      <4>1. f.zero \in BOOLEAN /\ item.zero \in BOOLEAN
        BY <1>3, ItemIs
      <4>2. f.zero = item.zero
        BY <2>1, <2>2, <4>1
      <4> QED
        BY <1>6, <1>8, <4>2
    <3> QED
      BY <2>1, <3>3, <3>4, WidthRead
  <2>3. CASE item.zero
    <3>1. rest = <<"0">> \o we
      BY <2>1, <2>3, FormatIs
    <3>2. "0" \in Characters
      BY OwnChars, Zenon DEF Own
    <3>3. PICK t \in Seq(Characters) : t = we \o F
      BY ConcatProperties
    <3>4. f.fmt = <<"0">> \o t
      BY <1>1, <3>1, <3>2, <3>3, Shift
    <3>5. f.fmt # <<>> /\ Head(f.fmt) = "0" /\ Tail(f.fmt) = t
      BY <3>2, <3>4, FirstOf
    <3>6. PICK g : g = Interpreted(f)
      OBVIOUS
    <3>7. TurnsInto(f, g, "0", t)
      BY <3>5, <3>6, InterpretedIs
    <3>8. /\ g.state = "otherFmtChar" /\ g.zero /\ g.before = -1 /\ g.after = -1
          /\ g.args = f.args /\ g.pending = f.pending
      BY <1>8, <2>1, <3>7 DEF TurnsInto
    <3>9. f.args \in Seq(Item) /\ f.pending \in Seq(Char)
      BY DEF Frame
    <3>10. g \in Frame /\ g.by = f.by /\ g.id = f.id /\ g.at = f.at /\ g.fmt = t
      BY <3>7, <3>8, <3>9 DEF TurnsInto
    <3>11. we \in Rests(g, item)
      BY <1>4, <1>5, <3>8 DEF Rests
    <3>12. g.zero = item.zero
      <4>1. g.zero \in BOOLEAN /\ item.zero \in BOOLEAN
        BY <3>10, ItemIs DEF Frame
      <4> QED
        BY <2>3, <3>8, <4>1
    <3>13. ~(g.after >= 0)
      BY <3>8
    <3>14. Converts(g, item, F)
      BY <1>2, <1>8, <3>3, <3>8, <3>10, <3>11, <3>12, <3>13 DEF Converts
    <3> QED
      BY <3>5, <3>6, <3>8, <3>10, <3>14 DEF Goes
  <2> QED
    BY <2>2, <2>3
<1>9. CASE f.state = "otherFmtChar"
  <2>1. item.letter # "%" /\ f.zero = item.zero
    BY <1>9 DEF Converts
  <2>2. Decided(f, item, F, A)
    BY <1>6, <2>1
  <2>3. CASE f.before = -1 /\ f.after = -1 /\ rest = Width(item) \o Ending(item)
    BY <1>1, <2>2, <2>3, WidthRead
  <2>4. CASE f.before = (IF item.width > 0 THEN item.width ELSE -1) /\ f.after < 0 /\
          rest = Ending(item)
    BY <1>1, <2>2, <2>4, EndingRead
  <2>5. CASE /\ f.before = (IF item.width > 0 THEN item.width ELSE -1) /\ ~(f.after < 0)
             /\ rest \in {<<"2", "l", item.letter>>, <<"l", item.letter>>, <<item.letter>>}
    <3>1. f.after >= 0
      BY <1>3, <2>5
    <3>2. item.extra # <<>>
      BY <3>1 DEF Converts
    <3> QED
      BY <1>1, <1>9, <2>2, <2>5, <3>1, <3>2, PrecisionRead
  <2>6. \/ f.before = -1 /\ f.after = -1 /\ rest = Width(item) \o Ending(item)
        \/ f.before = (IF item.width > 0 THEN item.width ELSE -1) /\ f.after < 0 /\
            rest = Ending(item)
        \/ /\ f.before = (IF item.width > 0 THEN item.width ELSE -1) /\ ~(f.after < 0)
           /\ rest \in {<<"2", "l", item.letter>>, <<"l", item.letter>>, <<item.letter>>}
    <3>1. PICK U, V, x : /\ U = (IF f.before = -1 /\
                            f.after = -1 THEN {Width(item) \o Ending(item)} ELSE {})
                         /\ V = (IF f.before = (IF item.width > 0 THEN item.width ELSE -1)
                                   THEN IF f.after < 0 THEN {Ending(item)}
                                        ELSE {<<"2", "l", item.letter>>, <<"l", item.letter>>, <<item.letter>>}
                                   ELSE {})
                         /\ x = UNION {U, V}
      OBVIOUS
    <3>2. Rests(f, item) = UNION {U, V}
      BY <1>9, <3>1 DEF Rests
    <3>3. rest \in U \/ rest \in V
      BY <3>2
    <3>4. rest \in U => f.before = -1 /\ f.after = -1 /\ rest = Width(item) \o Ending(item)
      BY <3>1
    <3>5. rest \in V => \/ f.before = (IF item.width > 0 THEN item.width ELSE -1) /\
                           f.after < 0 /\ rest = Ending(item)
                        \/ /\ f.before = (IF item.width > 0 THEN item.width ELSE -1) /\
                              ~(f.after < 0)
                           /\ rest \in {<<"2", "l", item.letter>>, <<"l", item.letter>>, <<item.letter>>}
      BY <3>1
    <3> QED
      BY <3>3, <3>4, <3>5
  <2> QED
    BY <2>3, <2>4, <2>5, <2>6
<1> QED
  BY <1>2, <1>7, <1>8, <1>9

\* A message of the log, its message and what it has said.
Telling(f, k, m, said) ==
  /\ f \in Frame /\ m \in Seq(Item) /\ said \in Seq(Char) /\ k \in 0 .. Len(m)
  /\ Reached(f, k, m, said)

\* Putting together is associative: what has been said, what is being said, and the rest.
LEMMA SaidOn ==
  ASSUME NEW S, NEW a \in Seq(S), NEW b \in Seq(S), NEW c \in Seq(S)
  PROVE  (a \o b) \o c = a \o (b \o c) /\ a \o b \in Seq(S) /\ b \o c \in Seq(S) /\
          a \o (b \o c) \in Seq(S)
<1>1. (a \o b) \o c = a \o (b \o c)
  BY ConcatAssociative
<1>2. a \o b \in Seq(S) /\ b \o c \in Seq(S)
  BY ConcatProperties
<1>3. a \o (b \o c) \in Seq(S)
  BY <1>2, ConcatProperties
<1> QED
  BY <1>1, <1>2, <1>3

\* A message of the log that has put out what it had to is a character further,
\* and says what it is to say.
LEMMA ReadOn ==
  ASSUME NEW f, NEW k, NEW m, NEW said, Telling(f, k, m, said), f.by = "log",
         f.pending = <<>>, f.fmt # <<>>
  PROVE  /\ Interpreted(f) \in Frame
         /\ Interpreted(f).by = f.by /\ Interpreted(f).id = f.id /\ Interpreted(f).at = f.at
         /\ \E j \in 0 .. Len(m) : Reached(Interpreted(f), j, m, said)
<1>1. f \in Frame /\ m \in Seq(Item) /\ said \in Seq(Char) /\ k \in 0 .. Len(m) /\
        Reached(f, k, m, said)
  BY DEF Telling
<1>2. PICK later : later = SubSeq(m, k + 1, Len(m))
  OBVIOUS
<1>3. PICK F \in Seq(Characters), A \in Seq(Item), M \in Seq(Char) :
        F = FormatOf(later) /\ A = ArgsOf(later) /\ M = MeaningOf(later)
  <2>1. FormatOf(later) \in Seq(Characters) /\ ArgsOf(later) \in Seq(Item) /\
          MeaningOf(later) \in Seq(Char)
    BY <1>1, <1>2, LaterIs, ZenonT(40) DEF Leads
  <2> QED
    BY <2>1
<1>4. PICK g : g = Interpreted(f)
  OBVIOUS
<1>5. CASE f.state # "chars"
  <2>1. PICK item : item = m[k]
    OBVIOUS
  <2>2. /\ k > 0 /\ item.letter # "plain"
        /\ f.state = "otherFmtChar" => item.letter # "%" /\ f.zero = item.zero
        /\ f.after >= 0 => item.extra # <<>>
        /\ \E rest \in Rests(f, item) : f.fmt = rest \o F
        /\ f.args = Argument(item) \o A
        /\ said \o (Meaning(item) \o M) = MeaningOf(m)
    BY <1>1, <1>2, <1>3, <1>5, <2>1 DEF Reached
  <2>3. item \in Item
    <3>1. Len(m) \in Nat
      BY <1>1, LenProperties
    <3>2. k \in 1 .. Len(m)
      BY <1>1, <2>2, <3>1
    <3> QED
      BY <1>1, <2>1, <3>2, ElementOfSeq
  <2>4. Converts(f, item, F)
    BY <1>5, <2>2 DEF Converts
  <2>5. Goes(f, g, item, F, A)
    BY <1>1, <1>3, <1>4, <2>2, <2>3, <2>4, ConversionRead
  <2>6. g \in Frame /\ g.by = f.by /\ g.id = f.id /\ g.at = f.at
    BY <2>5 DEF Goes
  <2>7. CASE Converts(g, item, F) /\ g.args = f.args
    <3>1. Reached(g, k, m, said)
      BY <1>2, <1>3, <2>1, <2>2, <2>6, <2>7 DEF Reached, Converts
    <3> QED
      BY <1>1, <1>4, <2>6, <3>1
  <2>8. CASE g.state = "chars" /\ g.fmt = F /\ g.args = A /\ g.pending = Meaning(item)
    <3>1. Reached(g, k, m, said)
      BY <1>2, <1>3, <2>1, <2>2, <2>8 DEF Reached
    <3> QED
      BY <1>1, <1>4, <2>6, <3>1
  <2> QED
    BY <2>5, <2>7, <2>8 DEF Goes
<1>6. CASE f.state = "chars"
  <2>1. f.fmt = F /\ f.args = A /\ said \o (<<>> \o M) = MeaningOf(m)
    BY <1>1, <1>2, <1>3, <1>6 DEF Reached
  <2>2. said \o M = MeaningOf(m)
    <3>1. <<>> \o M = M
      BY ConcatEmptySeq
    <3> QED
      BY <2>1, <3>1
  <2>3. k # Len(m)
    BY <1>1, <1>2, <1>3, <2>1, LaterIs, ZenonT(40) DEF Leads
  <2>4. PICK item, rest, j : item = m[k + 1] /\ rest = SubSeq(m, (k + 1) + 1, Len(m)) /\
          j = k + 1
    OBVIOUS
  <2>5. /\ item \in Item /\ j \in 0 .. Len(m)
        /\ F = Format(item) \o FormatOf(rest) /\ A = Argument(item) \o ArgsOf(rest)
        /\ M = Meaning(item) \o MeaningOf(rest)
    <3>1. /\ m[k + 1] \in Item /\ k + 1 \in 0 .. Len(m)
          /\ FormatOf(later) = Format(m[k + 1]) \o FormatOf(SubSeq(m, (k + 1) + 1, Len(m)))
          /\ ArgsOf(later) = Argument(m[k + 1]) \o ArgsOf(SubSeq(m, (k + 1) + 1, Len(m)))
          /\ MeaningOf(later) = Meaning(m[k + 1]) \o MeaningOf(SubSeq(m, (k + 1) + 1, Len(m)))
      <4>1. Leads(m, k, later)
        BY <1>1, <1>2, LaterIs
      <4> QED
        BY <2>3, <4>1 DEF Leads
    <3> QED
      BY <1>3, <2>4, <3>1
  <2>6. PICK G \in Seq(Characters), B \in Seq(Item), N \in Seq(Char) :
          G = FormatOf(rest) /\ B = ArgsOf(rest) /\ N = MeaningOf(rest)
    <3>1. rest = SubSeq(m, j + 1, Len(m))
      BY <2>4
    <3>2. FormatOf(rest) \in Seq(Characters) /\ ArgsOf(rest) \in Seq(Item) /\
            MeaningOf(rest) \in Seq(Char)
      BY <1>1, <2>5, <3>1, LaterIs DEF Leads
    <3> QED
      BY <3>2
  <2>7. rest = SubSeq(m, j + 1, Len(m)) /\ m[j] = item /\ j > 0
    <3>1. Len(m) \in Nat
      BY <1>1, LenProperties
    <3> QED
      BY <1>1, <2>4, <3>1
  <2>8. CASE item.letter = "plain"
    <3>1. PICK c \in Char : c = item.s[1] /\ c # "%"
      BY <2>5, <2>8, ItemStands
    <3>2. F = <<c>> \o G /\ A = <<>> \o B /\ M = <<c>> \o N
      BY <2>5, <2>6, <2>8, <3>1, ItemStands
    <3>3. A = B
      BY <3>2, ConcatEmptySeq
    <3>4. c \in Characters
      BY <3>1, OwnChars
    <3>5. f.fmt # <<>> /\ Head(f.fmt) = c /\ Tail(f.fmt) = G
      BY <2>1, <3>2, <3>4, FirstOf
    <3>6. TurnsInto(f, g, c, G)
      BY <1>1, <1>4, <3>5, InterpretedIs
    <3>7. g.state = "chars" /\ g.args = f.args /\ g.pending = <<c>>
      BY <1>6, <3>1, <3>6 DEF TurnsInto
    <3>8. f.args \in Seq(Item) /\ <<c>> \in Seq(Char)
      BY <1>1, <3>1 DEF Frame
    <3>9. g \in Frame /\ g.fmt = G /\ g.by = f.by /\ g.id = f.id /\ g.at = f.at
      BY <3>6, <3>7, <3>8 DEF TurnsInto
    <3>10. said \o (g.pending \o N) = MeaningOf(m)
      BY <2>2, <3>2, <3>7
    <3>11. Reached(g, j, m, said)
      BY <2>1, <2>6, <2>7, <3>3, <3>7, <3>9, <3>10 DEF Reached
    <3> QED
      BY <1>4, <2>5, <3>9, <3>11
  <2>9. CASE item.letter # "plain"
    <3>1. PICK t \in Seq(Characters) : t = Zero(item) \o (Width(item) \o Ending(item))
      <4>1. PICK z \in Seq(Characters), w \in Seq(Characters), e \in Seq(Characters) :
              z = Zero(item) /\ w = Width(item) /\ e = Ending(item)
        BY <2>5, <2>9, FormatIs
      <4>2. z \o (w \o e) \in Seq(Characters)
        BY SaidOn
      <4> QED
        BY <4>1, <4>2
    <3>2. Format(item) = <<"%">> \o t
      BY <2>5, <2>9, <3>1, ItemStands
    <3>3. "%" \in Characters
      BY OwnChars, Zenon DEF Own
    <3>4. PICK u \in Seq(Characters) : u = t \o G
      BY ConcatProperties
    <3>5. F = <<"%">> \o u
      <4>1. PICK p \in Characters : p = "%"
        BY <3>3
      <4>2. PICK w : w = <<p>> \o t
        OBVIOUS
      <4>3. w \o G = <<p>> \o (t \o G)
        BY <4>1, <4>2, Shift
      <4> QED
        BY <2>5, <2>6, <3>2, <3>4, <4>1, <4>2, <4>3
    <3>6. f.fmt # <<>> /\ Head(f.fmt) = "%" /\ Tail(f.fmt) = u
      BY <2>1, <3>3, <3>5, FirstOf
    <3>7. TurnsInto(f, g, "%", u)
      BY <1>1, <1>4, <3>6, InterpretedIs
    <3>8. /\ g.state = "firstFmtChar" /\ ~g.zero /\ g.before = -1 /\ g.after = -1
          /\ g.args = f.args /\ g.pending = <<>>
      BY <1>6, <3>7 DEF TurnsInto
    <3>9. f.args \in Seq(Item) /\ <<>> \in Seq(Char)
      BY <1>1 DEF Frame
    <3>10. g \in Frame /\ g.fmt = u /\ g.by = f.by /\ g.id = f.id /\ g.at = f.at
      BY <3>7, <3>8, <3>9 DEF TurnsInto
    <3>11. t \in Rests(g, item)
      BY <3>1, <3>8 DEF Rests
    <3>12. said \o (Meaning(item) \o N) = MeaningOf(m)
      BY <2>2, <2>5, <2>6
    <3>13. ~(g.after >= 0)
      BY <3>8
    <3>14. g.args = Argument(item) \o B
      BY <2>1, <2>5, <2>6, <3>8
    <3>15. Reached(g, j, m, said)
      BY <2>6, <2>7, <2>9, <3>4, <3>8, <3>10, <3>11, <3>12, <3>13, <3>14 DEF Reached
    <3> QED
      BY <1>4, <2>5, <3>10, <3>15
  <2> QED
    BY <2>8, <2>9
<1> QED
  BY <1>5, <1>6

\* A message that has nothing left to read and nothing to put out has said what it means.
LEMMA ReadAll ==
  ASSUME NEW f, NEW k, NEW m, NEW said, Telling(f, k, m, said), f.pending = <<>>,
         f.fmt = <<>>
  PROVE  said = MeaningOf(m)
<1>1. f \in Frame /\ m \in Seq(Item) /\ said \in Seq(Char) /\ k \in 0 .. Len(m) /\
        Reached(f, k, m, said)
  BY DEF Telling
<1>2. PICK later : later = SubSeq(m, k + 1, Len(m))
  OBVIOUS
<1>3. Leads(m, k, later)
  BY <1>1, <1>2, LaterIs
<1>4. PICK F \in Seq(Characters), A \in Seq(Item), M \in Seq(Char) :
        F = FormatOf(later) /\ A = ArgsOf(later) /\ M = MeaningOf(later)
  <2>1. FormatOf(later) \in Seq(Characters) /\ ArgsOf(later) \in Seq(Item) /\
          MeaningOf(later) \in Seq(Char)
    BY <1>3 DEF Leads
  <2> QED
    BY <2>1
<1>5. f.state = "chars"
  <2> SUFFICES ASSUME f.state # "chars" PROVE FALSE
    OBVIOUS
  <2>1. PICK item : item = m[k]
    OBVIOUS
  <2>2. /\ k > 0 /\ item.letter # "plain"
        /\ f.state = "otherFmtChar" => item.letter # "%" /\ f.zero = item.zero
        /\ f.after >= 0 => item.extra # <<>>
        /\ \E rest \in Rests(f, item) : f.fmt = rest \o F
        /\ f.args = Argument(item) \o A
    BY <1>1, <1>2, <1>4, <2>1 DEF Reached
  <2>3. item \in Item
    <3>1. Len(m) \in Nat
      BY <1>1, LenProperties
    <3>2. k \in 1 .. Len(m)
      BY <1>1, <2>2, <3>1
    <3> QED
      BY <1>1, <2>1, <3>2, ElementOfSeq
  <2>4. Converts(f, item, F)
    BY <2>2 DEF Converts
  <2>5. Goes(f, Interpreted(f), item, F, A)
    BY <1>1, <1>4, <2>2, <2>3, <2>4, ConversionRead
  <2> QED
    BY <2>5 DEF Goes
<1>6. F = <<>> /\ said \o (<<>> \o M) = MeaningOf(m)
  BY <1>1, <1>2, <1>4, <1>5 DEF Reached
<1>7. k = Len(m)
  <2> SUFFICES ASSUME k # Len(m) PROVE FALSE
    OBVIOUS
  <2>1. PICK item, rest, j : item = m[k + 1] /\ rest = SubSeq(m, (k + 1) + 1, Len(m)) /\
          j = k + 1
    OBVIOUS
  <2>2. item \in Item /\ j \in 0 .. Len(m) /\ F = Format(item) \o FormatOf(rest)
    BY <1>3, <1>4, <2>1 DEF Leads
  <2>3. PICK G \in Seq(Characters) : G = FormatOf(rest)
    <3>1. rest = SubSeq(m, j + 1, Len(m))
      BY <2>1
    <3>2. Leads(m, j, rest)
      BY <1>1, <2>2, <3>1, LaterIs
    <3> QED
      BY <3>2 DEF Leads
  <2>4. PICK c \in Characters, t \in Seq(Characters) : Format(item) = <<c>> \o t
    <3>1. CASE item.letter = "plain"
      <4>1. PICK c \in Char : c = item.s[1] /\ Format(item) = <<c>>
        BY <2>2, <3>1, ItemStands
      <4>2. c \in Characters /\ <<>> \in Seq(Characters)
        BY <4>1, OwnChars
      <4>3. <<c>> \in Seq(Characters)
        BY <4>2
      <4>4. <<c>> \o <<>> = <<c>>
        BY <4>3, ConcatEmptySeq
      <4> QED
        BY <4>1, <4>2, <4>4
    <3>2. CASE item.letter # "plain"
      <4>1. PICK z \in Seq(Characters), w \in Seq(Characters), e \in Seq(Characters) :
              z = Zero(item) /\ w = Width(item) /\ e = Ending(item)
        BY <2>2, <3>2, FormatIs
      <4>2. z \o (w \o e) \in Seq(Characters)
        BY SaidOn
      <4>3. Format(item) = <<"%">> \o (z \o (w \o e))
        BY <2>2, <3>2, <4>1, ItemStands
      <4>4. "%" \in Characters
        BY OwnChars, Zenon DEF Own
      <4> QED
        BY <4>2, <4>3, <4>4
    <3> QED
      BY <3>1, <3>2
  <2>5. F = <<c>> \o (t \o G) /\ t \o G \in Seq(Characters)
    <3>1. PICK w : w = <<c>> \o t
      OBVIOUS
    <3>2. w \o G = <<c>> \o (t \o G) /\ t \o G \in Seq(Characters)
      BY <3>1, Shift
    <3> QED
      BY <2>2, <2>3, <2>4, <3>1, <3>2
  <2>6. F # <<>>
    BY <2>5, FirstOf
  <2> QED
    BY <1>6, <2>6
<1>8. M = <<>>
  BY <1>3, <1>4, <1>7 DEF Leads
<1>9. said \o <<>> = said /\ <<>> \o <<>> = <<>>
  <2>1. said \o <<>> = said
    BY <1>1, ConcatEmptySeq
  <2>2. <<>> \o <<>> = <<>>
    <3>1. <<>> \in Seq(Char)
      OBVIOUS
    <3> QED
      BY <3>1, ConcatEmptySeq
  <2> QED
    BY <2>1, <2>2
<1> QED
  BY <1>6, <1>8, <1>9

\* A message that has just begun.
LEMMA Begun ==
  ASSUME NEW m \in Seq(Item), NEW f, f.state = "chars", f.pending = <<>>,
         f.fmt = FormatOf(m), f.args = ArgsOf(m)
  PROVE  0 \in 0 .. Len(m) /\ Reached(f, 0, m, <<>>)
<1>1. 0 \in 0 .. Len(m)
  BY LenProperties
<1>2. PICK k, later : k = 0 /\ later = SubSeq(m, k + 1, Len(m))
  OBVIOUS
<1>3. later = m /\ MeaningOf(m) \in Seq(Char)
  <2>1. Leads(m, k, later)
    BY <1>1, <1>2, LaterIs
  <2> QED
    BY <1>2, <2>1 DEF Leads
<1>4. <<>> \o MeaningOf(m) = MeaningOf(m)
  BY <1>3, ConcatEmptySeq
<1>5. Reached(f, k, m, <<>>)
  BY <1>2, <1>3, <1>4 DEF Reached
<1> QED
  BY <1>1, <1>2, <1>5

\* What is appended to one sequence is in front of the next.
LEMMA AppendFirst ==
  ASSUME NEW S, NEW s \in Seq(S), NEW c \in S, NEW v \in Seq(S)
  PROVE  Append(s, c) \o v = s \o (<<c>> \o v)
<1>1. PICK u \in Seq(S) : u = <<c>>
  <2>1. <<c>> \in Seq(S)
    OBVIOUS
  <2> QED
    BY <2>1
<1>2. Append(s, c) = s \o u
  BY <1>1, AppendIsConcat
<1>3. (s \o u) \o v = s \o (u \o v)
  BY ConcatAssociative
<1> QED
  BY <1>1, <1>2, <1>3

\* The first of the characters that are due is left behind.
PutBy(f, at) == [f EXCEPT !.at = at, !.pending = Tail(@)]

\* A character is put out.
LEMMA PutOn ==
  ASSUME NEW f, NEW k, NEW m, NEW said, Telling(f, k, m, said), f.pending # <<>>,
         NEW at \in {"format", "write"},
         NEW g, g = PutBy(f, at)
  PROVE  /\ g \in Frame /\ g.by = f.by /\ g.id = f.id /\ g.at = at /\ g.fmt = f.fmt
         /\ Head(f.pending) \in Char
         /\ Reached(g, k, m, Append(said, Head(f.pending)))
<1> USE DEF PutBy
<1>1. f \in Frame /\ m \in Seq(Item) /\ said \in Seq(Char) /\ k \in 0 .. Len(m) /\
        Reached(f, k, m, said)
  BY DEF Telling
<1>2. PICK later : later = SubSeq(m, k + 1, Len(m))
  OBVIOUS
<1>3. PICK M \in Seq(Char) : M = MeaningOf(later)
  <2>1. Leads(m, k, later)
    BY <1>1, <1>2, LaterIs, Zenon
  <2> QED
    BY <2>1 DEF Leads
<1>4. PICK p \in Seq(Char) : p = f.pending /\ p # <<>>
  BY <1>1 DEF Frame
<1>5. PICK c \in Char, t \in Seq(Char) : c = Head(p) /\ t = Tail(p) /\ p = <<c>> \o t
  <2>1. Head(p) \in Char /\ Tail(p) \in Seq(Char)
    BY <1>4, HeadTailProperties
  <2>2. p = <<Head(p)>> \o Tail(p)
    BY <1>4
  <2> QED
    BY <2>1, <2>2, Zenon
<1>6. /\ f.state = "chars" /\ f.fmt = FormatOf(later) /\ f.args = ArgsOf(later)
      /\ said \o (p \o M) = MeaningOf(m)
  BY <1>1, <1>2, <1>3, <1>4 DEF Reached
<1>7. /\ g \in Frame /\ g.by = f.by /\ g.id = f.id /\ g.at = at /\ g.fmt = f.fmt
      /\ g.state = f.state /\ g.args = f.args /\ g.pending = t
  <2>1. g = [f EXCEPT !.at = at, !.pending = t]
    BY <1>4, <1>5
  <2>2. g \in Frame
    BY <1>1, <1>5, <2>1 DEF Frame
  <2> QED
    BY <1>1, <2>1, <2>2 DEF Frame
<1>8. Append(said, c) \o (t \o M) = said \o (p \o M)
  <2>1. PICK v \in Seq(Char) : v = t \o M
    BY ConcatProperties
  <2>2. p \o M = <<c>> \o v
    BY <1>5, <2>1, Shift
  <2>3. PICK s \in Seq(Char) : s = said
    BY <1>1
  <2>4. Append(s, c) \o v = s \o (<<c>> \o v)
    BY AppendFirst, SMTT(30)
  <2> QED
    BY <2>1, <2>2, <2>3, <2>4
<1>9. Reached(g, k, m, Append(said, c))
  BY <1>2, <1>3, <1>6, <1>7, <1>8 DEF Reached
<1> QED
  BY <1>4, <1>5, <1>7, <1>9

\* What is behind the first one or two elements of a sequence.
LEMMA Behind ==
  ASSUME NEW S, NEW s \in Seq(S), s # <<>>
  PROVE  /\ SubSeq(s, 1, Len(s)) = s
         /\ SubSeq(s, 2, Len(s)) = Tail(s)
         /\ Tail(s) # <<>> <=> Len(s) > 1
         /\ Tail(s) # <<>> => s[2] = Head(Tail(s)) /\ SubSeq(s, 3, Len(s)) = Tail(Tail(s))
<1>1. PICK n \in Nat : n = Len(s) /\ n > 0
  BY LenProperties, EmptySeq
<1>2. SubSeq(s, 1, Len(s)) = s /\ SubSeq(s, 2, Len(s)) = Tail(s)
  BY SubSeqFull, TailIsSubSeq
<1>3. Tail(s) \in Seq(S) /\ Len(Tail(s)) = n - 1
  BY <1>1, HeadTailProperties
<1>4. Tail(s) # <<>> <=> n > 1
  <2>1. PICK t \in Seq(S) : t = Tail(s)
    BY <1>3
  <2>2. t = <<>> <=> Len(t) = 0
    BY EmptySeq
  <2> QED
    BY <1>1, <1>3, <2>1, <2>2
<1>5. ASSUME n > 1 PROVE s[2] = Head(Tail(s)) /\ SubSeq(s, 3, n) = Tail(Tail(s))
  <2>1. 2 \in 1 .. Len(s) /\ n \in 2 .. Len(s)
    BY <1>1, <1>5
  <2>2. Head(SubSeq(s, 2, n)) = s[2] /\ Tail(SubSeq(s, 2, n)) = SubSeq(s, 2 + 1, n)
    BY <2>1, HeadTailOfSubSeq
  <2>3. 2 + 1 = 3 /\ SubSeq(s, 2, n) = Tail(s)
    BY <1>1, <1>2
  <2> QED
    BY <2>2, <2>3
<1> QED
  BY <1>1, <1>2, <1>4, <1>5

\* The format of an item of alt_printf().
LEMMA SimpleFormat ==
  ASSUME NEW item \in Item, Simple(item), item.letter # "plain"
  PROVE  Format(item) = <<"%", item.letter>> /\ item.letter \in Characters
<1>1. ~item.zero /\ item.width = 0 /\ item.extra = <<>>
  BY DEF Simple
<1>2. item.letter \in Characters /\ "%" \in Characters
  <2>1. item.letter \in Characters
    BY FormatIs
  <2> QED
    BY <2>1, OwnChars, Zenon DEF Own
<1>3. Zero(item) = <<>> /\ Width(item) = <<>> /\ Ending(item) = <<item.letter>>
  BY <1>1, FormatIs
<1>4. PICK l \in Seq(Characters) : l = <<item.letter>>
  <2>1. <<item.letter>> \in Seq(Characters)
    BY <1>2
  <2> QED
    BY <2>1
<1>5. <<>> \o l = l
  BY ConcatEmptySeq
<1>6. Format(item) = <<"%">> \o l
  BY <1>3, <1>4, <1>5, ItemStands
<1>7. PICK c \in Characters, d \in Characters : c = "%" /\ d = item.letter
  BY <1>2
<1>8. <<c, d>> = <<c>> \o <<d>>
  BY PairOf
<1> QED
  BY <1>2, <1>4, <1>6, <1>7, <1>8

\* alt_printf() says what a plain character, or a conversion, means, and goes on behind it.
LEMMA SpokenOn ==
  ASSUME NEW f, NEW k, NEW m, NEW said, Telling(f, k, m, said), f.state = "chars",
         f.pending = <<>>, f.fmt # <<>>,
         \A i \in DOMAIN m : Simple(m[i])
  PROVE  /\ Words(f) \in Seq(Char) /\ Spoken(f) \in Frame
         /\ Spoken(f).by = f.by /\ Spoken(f).id = f.id /\ Spoken(f).at = f.at
         /\ Spoken(f).state = "chars" /\ Spoken(f).pending = <<>>
         /\ k + 1 \in 0 .. Len(m) /\ Reached(Spoken(f), k + 1, m, said \o Words(f))
<1>1. f \in Frame /\ m \in Seq(Item) /\ said \in Seq(Char) /\ k \in 0 .. Len(m) /\
        Reached(f, k, m, said)
  BY DEF Telling
<1>2. PICK later : later = SubSeq(m, k + 1, Len(m))
  OBVIOUS
<1>3. Leads(m, k, later)
  BY <1>1, <1>2, LaterIs
<1>4. PICK F \in Seq(Characters), A \in Seq(Item), M \in Seq(Char) :
        F = FormatOf(later) /\ A = ArgsOf(later) /\ M = MeaningOf(later)
  <2>1. FormatOf(later) \in Seq(Characters) /\ ArgsOf(later) \in Seq(Item) /\
          MeaningOf(later) \in Seq(Char)
    BY <1>3 DEF Leads
  <2> QED
    BY <2>1
<1>5. f.fmt = F /\ f.args = A /\ said \o (<<>> \o M) = MeaningOf(m)
  BY <1>1, <1>2, <1>4 DEF Reached
<1>6. said \o M = MeaningOf(m)
  <2>1. <<>> \o M = M
    BY ConcatEmptySeq
  <2> QED
    BY <1>5, <2>1
<1>7. k # Len(m)
  BY <1>3, <1>4, <1>5 DEF Leads
<1>8. PICK item, rest, j : item = m[k + 1] /\ rest = SubSeq(m, (k + 1) + 1, Len(m)) /\
        j = k + 1
  OBVIOUS
<1>9. /\ item \in Item /\ j \in 0 .. Len(m)
      /\ F = Format(item) \o FormatOf(rest) /\ A = Argument(item) \o ArgsOf(rest)
      /\ M = Meaning(item) \o MeaningOf(rest)
  BY <1>3, <1>4, <1>7, <1>8 DEF Leads
<1>10. PICK G \in Seq(Characters), B \in Seq(Item), N \in Seq(Char) :
         G = FormatOf(rest) /\ B = ArgsOf(rest) /\ N = MeaningOf(rest)
  <2>1. rest = SubSeq(m, j + 1, Len(m))
    BY <1>8
  <2>2. Leads(m, j, rest)
    BY <1>1, <1>9, <2>1, LaterIs
  <2>3. FormatOf(rest) \in Seq(Characters) /\ ArgsOf(rest) \in Seq(Item) /\
          MeaningOf(rest) \in Seq(Char)
    BY <2>2 DEF Leads
  <2> QED
    BY <2>3
<1>11. Simple(item)
  <2>1. Len(m) \in Nat /\ DOMAIN m = 1 .. Len(m)
    BY <1>1, LenProperties
  <2>2. k + 1 \in DOMAIN m
    BY <1>1, <1>8, <1>9, <2>1
  <2> QED
    BY <1>8, <2>2
<1>12. PICK words \in Seq(Char) : words = Meaning(item)
  BY <1>9, MeaningTyped
<1>13. PICK g : g = Spoken(f)
  OBVIOUS
<1>14. Words(f) = words /\ g = [f EXCEPT !.fmt = G, !.args = B]
  <2>1. CASE item.letter = "plain"
    <3>1. PICK c \in Char : c = item.s[1] /\ c # "%"
      BY <1>9, <2>1, ItemStands
    <3>2. F = <<c>> \o G /\ A = <<>> \o B /\ words = <<c>>
      BY <1>9, <1>10, <1>12, <2>1, <3>1, ItemStands
    <3>3. A = B
      BY <3>2, ConcatEmptySeq
    <3>4. c \in Characters
      BY <3>1, OwnChars
    <3>5. Head(F) = c /\ Tail(F) = G /\ F # <<>>
      BY <3>2, <3>4, FirstOf
    <3>6. SubSeq(F, 1 + 1, Len(F)) = G
      <4>1. SubSeq(F, 2, Len(F)) = G
        BY <3>5, TailIsSubSeq
      <4>2. 1 + 1 = 2
        OBVIOUS
      <4> QED
        BY <4>1, <4>2
    <3>7. SubSeq(A, 0 + 1, Len(A)) = B
      <4>1. SubSeq(A, 1, Len(A)) = B
        BY <3>3, SubSeqFull
      <4>2. 0 + 1 = 1
        OBVIOUS
      <4> QED
        BY <4>1, <4>2
    <3>8. Words(f) = words
      BY <1>5, <3>1, <3>2, <3>5 DEF Words
    <3>9. g = [f EXCEPT !.fmt = SubSeq(F, 1 + 1, Len(F)), !.args = SubSeq(A, 0 + 1, Len(A))]
      BY <1>5, <1>13, <3>1, <3>5 DEF Spoken
    <3> QED
      BY <3>6, <3>7, <3>8, <3>9
  <2>2. CASE item.letter # "plain"
    <3>1. PICK c \in Characters, p \in Characters : c = item.letter /\ p = "%"
      BY <1>9, <1>11, <2>2, SimpleFormat, OwnChars, Zenon DEF Own
    <3>2. F = <<p, c>> \o G
      BY <1>9, <1>10, <1>11, <2>2, <3>1, SimpleFormat
    <3>3. PICK t \in Seq(Characters) : t = <<c>> \o G
      <4>1. <<c>> \in Seq(Characters)
        OBVIOUS
      <4>2. <<c>> \o G \in Seq(Characters)
        BY <4>1, ConcatProperties
      <4> QED
        BY <4>2
    <3>4. F # <<>> /\ Head(F) = p /\ Tail(F) = t
      BY <3>2, <3>3, TwoOf
    <3>5. t # <<>> /\ Head(t) = c /\ Tail(t) = G
      BY <3>3, FirstOf
    <3>6. Len(F) > 1 /\ F[2] = c /\ SubSeq(F, 2 + 1, Len(F)) = G
      <4>1. Len(F) > 1 /\ F[2] = c /\ SubSeq(F, 3, Len(F)) = G
        BY <3>4, <3>5, Behind
      <4>2. 2 + 1 = 3
        OBVIOUS
      <4> QED
        BY <4>1, <4>2
    <3>7. CASE c = "%"
      <4>1. A = <<>> \o B /\ words = <<"%">>
        BY <1>9, <1>10, <1>12, <3>1, <3>7, ItemStands
      <4>2. SubSeq(A, 0 + 1, Len(A)) = B
        <5>1. SubSeq(A, 1, Len(A)) = B
          BY <4>1, ConcatEmptySeq, SubSeqFull
        <5>2. 0 + 1 = 1
          OBVIOUS
        <5> QED
          BY <5>1, <5>2
      <4>3. Words(f) = words
        BY <1>5, <3>1, <3>4, <3>6, <3>7, <4>1 DEF Words
      <4>4. g = [f EXCEPT !.fmt = SubSeq(F, 2 + 1, Len(F)), !.args = SubSeq(A, 0 + 1, Len(A))]
        BY <1>5, <1>13, <3>1, <3>4, <3>6, <3>7 DEF Spoken
      <4> QED
        BY <3>6, <4>2, <4>3, <4>4
    <3>8. CASE c # "%"
      <4>1. c \in {"x", "c", "s"}
        BY <1>11, <2>2, <3>1, <3>8 DEF Simple
      <4>2. A = <<item>> \o B
        BY <1>9, <1>10, <2>2, <3>1, <3>8, ItemStands
      <4>3. A # <<>> /\ Head(A) = item /\ Tail(A) = B
        BY <1>9, <4>2, FirstOf
      <4>4. SubSeq(A, 1 + 1, Len(A)) = B
        <5>1. SubSeq(A, 2, Len(A)) = B
          BY <4>3, TailIsSubSeq
        <5>2. 1 + 1 = 2
          OBVIOUS
        <5> QED
          BY <5>1, <5>2
      <4>5. words = (IF c = "x" THEN Hex(item.n) ELSE Upto(item.s))
        BY <1>9, <1>11, <1>12, <3>1, <4>1, SimpleMeans
      <4>6. Words(f) = words
        BY <1>5, <3>1, <3>4, <3>6, <4>1, <4>3, <4>5 DEF Words
      <4>7. g = [f EXCEPT !.fmt = SubSeq(F, 2 + 1, Len(F)), !.args = SubSeq(A, 1 + 1, Len(A))]
        BY <1>5, <1>13, <3>1, <3>4, <3>6, <4>1 DEF Spoken
      <4> QED
        BY <3>6, <4>4, <4>6, <4>7
    <3> QED
      BY <3>7, <3>8
  <2> QED
    BY <2>1, <2>2
<1>15. g \in Frame
  BY <1>1, <1>14 DEF Frame
<1>16. /\ g.by = f.by /\ g.id = f.id /\ g.at = f.at /\ g.state = "chars" /\ g.pending = <<>>
       /\ g.fmt = G /\ g.args = B
  BY <1>1, <1>14 DEF Frame
<1>17. (said \o words) \o (<<>> \o N) = MeaningOf(m)
  <2>1. <<>> \o N = N
    BY ConcatEmptySeq
  <2>2. said \in Seq(Char)
    BY <1>1
  <2>3. PICK s \in Seq(Char) : s = said
    BY <2>2
  <2>4. (s \o words) \o N = s \o (words \o N)
    BY SMTT(30), ConcatAssociative
  <2> QED
    BY <1>6, <1>9, <1>10, <1>12, <2>1, <2>3, <2>4
<1>18. Reached(g, j, m, said \o words)
  BY <1>8, <1>10, <1>16, <1>17 DEF Reached
<1> QED
  BY <1>8, <1>9, <1>12, <1>13, <1>14, <1>15, <1>16, <1>18

\* What is put out of a message, and what is lost.
Said(o, id) == FlattenSeq([i \in DOMAIN o |-> IF o[i].id = id THEN <<o[i].char>> ELSE <<>>])
Losses(o)   == Cardinality({i \in DOMAIN o : o[i].lost})
Spell(id)   == [x \in Written |-> IF x.id = id THEN <<x.char>> ELSE <<>>]

\* The characters of a message are gathered from what is put out.
LEMMA SaidIs ==
  ASSUME NEW o \in Seq(Written), NEW id
  PROVE  /\ Stands(Spell(id), Written, Char)
         /\ Said(o, id) = Gather(Spell(id), o) /\ Said(o, id) \in Seq(Char)
<1>1. Stands(Spell(id), Written, Char)
  <2> SUFFICES ASSUME NEW x \in Written PROVE Spell(id)[x] \in Seq(Char)
    BY DEF Stands
  <2>1. x.char \in Char
    BY DEF Written
  <2>2. <<x.char>> \in Seq(Char) /\ <<>> \in Seq(Char)
    BY <2>1
  <2> QED
    BY <2>2 DEF Spell
<1>2. \A i \in DOMAIN o : o[i] \in Written
  BY LenProperties, ElementOfSeq
<1>3. [i \in DOMAIN o |-> Spell(id)[o[i]]] = [i \in DOMAIN o |-> IF o[i].id =
        id THEN <<o[i].char>> ELSE <<>>]
  BY <1>2 DEF Spell
<1>4. Said(o, id) = Gather(Spell(id), o)
  BY <1>3 DEF Said, Gather
<1>5. Gather(Spell(id), o) \in Seq(Char)
  BY <1>1, GatherIs
<1> QED
  BY <1>1, <1>4, <1>5

\* One character more.
LEMMA SaidMore ==
  ASSUME NEW o \in Seq(Written), NEW x \in Written, NEW id
  PROVE  Said(Append(o, x), id) = IF x.id =
          id THEN Append(Said(o, id), x.char) ELSE Said(o, id)
<1>1. PICK p \in Seq(Written) : p = <<x>>
  <2>1. <<x>> \in Seq(Written)
    OBVIOUS
  <2> QED
    BY <2>1
<1>2. Append(o, x) = o \o p
  BY <1>1, AppendIsConcat
<1>3. PICK F : F = Spell(id) /\ Stands(F, Written, Char)
  BY SaidIs
<1>4. Gather(F, o \o p) = Gather(F, o) \o Gather(F, p)
  <2>1. Stands(F, Written, Char)
    BY <1>3
  <2> QED
    BY <2>1, GatherConcat
<1>5. Gather(F, p) = F[x]
  BY <1>1, <1>3, GatherOne
<1>6. PICK s \in Seq(Char) : s = Said(o, id) /\ s = Gather(F, o)
  BY <1>3, SaidIs
<1>7. Said(Append(o, x), id) = s \o F[x]
  <2>1. Append(o, x) \in Seq(Written)
    BY AppendProperties
  <2>2. Said(Append(o, x), id) = Gather(F, Append(o, x))
    BY <1>3, <2>1, SaidIs
  <2> QED
    BY <1>2, <1>4, <1>5, <1>6, <2>2
<1>8. CASE x.id = id
  <2>1. PICK c \in Char : c = x.char
    BY DEF Written
  <2>2. F[x] = <<c>>
    BY <1>3, <1>8, <2>1 DEF Spell
  <2>3. Append(s, c) = s \o <<c>>
    BY AppendIsConcat
  <2> QED
    BY <1>6, <1>7, <1>8, <2>1, <2>2, <2>3
<1>9. CASE x.id # id
  <2>1. F[x] = <<>>
    BY <1>3, <1>9 DEF Spell
  <2>2. s \o <<>> = s
    BY ConcatEmptySeq
  <2> QED
    BY <1>6, <1>7, <1>9, <2>1, <2>2
<1> QED
  BY <1>8, <1>9

\* The words of a message, all at once.
Uttered(d, w) == [i \in DOMAIN w |-> [id |-> d, char |-> w[i], lost |-> FALSE]]

\* They are what is said of it, and nothing of any other.
LEMMA SaidWords ==
  ASSUME NEW o \in Seq(Written), NEW w \in Seq(Char), NEW d \in Nat, NEW id
  PROVE  /\ o \o Uttered(d, w) \in Seq(Written)
         /\ Len(Uttered(d, w)) = Len(w) /\ Uttered(d, w) \in Seq(Written)
         /\ \A i \in 1 .. Len(w) : Uttered(d, w)[i].id = d /\ ~Uttered(d, w)[i].lost
         /\ Said(o \o Uttered(d, w), id) = IF id = d THEN Said(o, id) \o w ELSE Said(o, id)
<1>1. PICK n \in Nat : n = Len(w) /\ DOMAIN w = 1 .. n /\ \A i \in 1 .. n : w[i] \in Char
  BY LenProperties, ElementOfSeq
<1>2. PICK u : u = Uttered(d, w)
  OBVIOUS
<1>3. u = [i \in 1 .. n |-> [id |-> d, char |-> w[i], lost |-> FALSE]]
  BY <1>1, <1>2 DEF Uttered
<1>4. \A i \in 1 .. n : [id |-> d, char |-> w[i], lost |-> FALSE] \in Written
  BY <1>1 DEF Written
<1>5. u \in Seq(Written) /\ Len(u) = n
  BY <1>3, <1>4, IsASeq, LenProperties
<1>6. \A i \in 1 .. n : u[i] \in Written /\ u[i].id = d /\ u[i].char = w[i] /\ ~u[i].lost
  BY <1>3, <1>4
<1>7. o \o u \in Seq(Written)
  BY <1>5, ConcatProperties
<1>8. PICK F : F = Spell(id) /\ Stands(F, Written, Char)
  BY SaidIs
<1>9. Gather(F, o \o u) = Gather(F, o) \o Gather(F, u)
  <2>1. Stands(F, Written, Char)
    BY <1>8
  <2> QED
    BY <1>5, <2>1, GatherConcat
<1>10. PICK s \in Seq(Char) : s = Said(o, id) /\ s = Gather(F, o)
  BY <1>8, SaidIs
<1>11. Said(o \o u, id) = s \o Gather(F, u)
  <2>1. Said(o \o u, id) = Gather(F, o \o u)
    BY <1>7, <1>8, SaidIs
  <2> QED
    BY <1>9, <1>10, <2>1
<1>12. CASE id = d
  <2>1. \A i \in 1 .. Len(u) : F[u[i]] = <<w[i]>>
    BY <1>5, <1>6, <1>8, <1>12 DEF Spell
  <2>2. Gather(F, u) = w
    <3>1. Stands(F, Written, Char)
      BY <1>8
    <3>2. u \in Seq(Written) /\ Len(u) = Len(w) /\ w \in Seq(Char)
      BY <1>1, <1>5
    <3>3. Yields(F, u, w)
      BY <3>1, <3>2, GatherEach
    <3> QED
      BY <2>1, <3>2, <3>3 DEF Yields
  <2> QED
    BY <1>1, <1>2, <1>5, <1>6, <1>7, <1>10, <1>11, <1>12, <2>2
<1>13. CASE id # d
  <2>1. \A i \in 1 .. Len(u) : F[u[i]] = <<>>
    BY <1>5, <1>6, <1>8, <1>13 DEF Spell
  <2>2. Gather(F, u) = <<>>
    <3>1. Stands(F, Written, Char) /\ u \in Seq(Written)
      BY <1>5, <1>8
    <3>2. Yields(F, u, w)
      BY <3>1, GatherEach
    <3> QED
      BY <2>1, <3>2 DEF Yields
  <2>3. s \o <<>> = s
    BY ConcatEmptySeq
  <2> QED
    BY <1>1, <1>2, <1>5, <1>6, <1>7, <1>10, <1>11, <1>13, <2>2, <2>3
<1> QED
  BY <1>12, <1>13

\* Nothing is said of a message none of whose characters are out.
LEMMA SaidNothing ==
  ASSUME NEW o \in Seq(Written), NEW id, \A i \in DOMAIN o : o[i].id # id
  PROVE  Said(o, id) = <<>>
<1>1. PICK F : F = Spell(id) /\ Stands(F, Written, Char)
  BY SaidIs
<1>2. DOMAIN o = 1 .. Len(o) /\ \A i \in 1 .. Len(o) : o[i] \in Written
  BY LenProperties, ElementOfSeq
<1>3. \A i \in 1 .. Len(o) : F[o[i]] = <<>>
  BY <1>1, <1>2 DEF Spell
<1>4. <<>> \in Seq(Char)
  OBVIOUS
<1>5. Gather(F, o) = <<>>
  <2>1. Stands(F, Written, Char)
    BY <1>1
  <2>2. PICK t \in Seq(Char) : t = <<>>
    BY <1>4
  <2>3. Yields(F, o, t)
    BY <2>1, GatherEach
  <2> QED
    BY <1>3, <2>3 DEF Yields
<1> QED
  BY <1>1, <1>5, SaidIs

\* Losses, of one character more and of words.
LEMMA LossesMore ==
  ASSUME NEW o \in Seq(Written), NEW u \in Seq(Written)
  PROVE  /\ Losses(o) \in Nat
         /\ (\A i \in 1 .. Len(u) : ~u[i].lost) => Losses(o \o u) = Losses(o)
         /\ Len(u) = 1 => Losses(o \o u) = Losses(o) + (IF u[1].lost THEN 1 ELSE 0)
<1>1. PICK m \in Nat, n \in Nat : m = Len(o) /\ n = Len(u) /\ DOMAIN o = 1 .. m
  BY LenProperties
<1>2. PICK v \in Seq(Written) : /\ v = o \o u /\ Len(v) = m + n
                                /\ \A i \in 1 .. m + n : v[i] =
                                    IF i <= m THEN o[i] ELSE u[i - m]
  <2>1. o \o u \in Seq(Written) /\ Len(o \o u) = Len(o) + Len(u)
        /\ \A i \in 1 .. Len(o) + Len(u) : (o \o u)[i] =
            IF i <= Len(o) THEN o[i] ELSE u[i - Len(o)]
    BY ConcatProperties
  <2>2. PICK v : v = o \o u
    OBVIOUS
  <2> QED
    BY <1>1, <2>1, <2>2
<1>3. DOMAIN v = 1 .. m + n
  BY <1>2, LenProperties
<1>4. PICK S, T : S = {i \in DOMAIN o : o[i].lost} /\ T = {i \in DOMAIN v : v[i].lost}
  OBVIOUS
<1>5. S \subseteq 1 .. m
  BY <1>1, <1>4
<1>6. IsFiniteSet(S) /\ Cardinality(S) \in Nat
  <2>1. IsFiniteSet(1 .. m)
    BY FS_Interval
  <2>2. IsFiniteSet(S)
    BY <1>5, <2>1, FS_Subset
  <2> QED
    BY <2>2, FS_CardinalityType
<1>7. ASSUME \A i \in 1 .. n : ~u[i].lost PROVE T = S
  <2>1. \A i \in 1 .. m + n : i <= m => v[i] = o[i]
    BY <1>2
  <2>2. \A i \in 1 .. m + n : ~(i <= m) => i - m \in 1 .. n /\ v[i] = u[i - m]
    BY <1>2
  <2>3. \A i \in 1 .. m + n : ~(i <= m) => ~v[i].lost
    BY <1>7, <2>2
  <2> QED
    BY <1>1, <1>3, <1>4, <2>1, <2>3
<1>8. ASSUME n = 1 PROVE Cardinality(T) = Cardinality(S) + (IF u[1].lost THEN 1 ELSE 0)
  <2>1. \A i \in 1 .. m : v[i] = o[i]
    <3>1. \A i \in 1 .. m : i \in 1 .. m + n /\ i <= m
      OBVIOUS
    <3> QED
      BY <1>2, <3>1
  <2>2. v[m + 1] = u[1]
    <3>1. m + 1 \in 1 .. m + n /\ ~(m + 1 <= m) /\ (m + 1) - m = 1
      BY <1>8
    <3> QED
      BY <1>2, <3>1
  <2>3. \A i : i \in 1 .. m + n <=> i \in 1 .. m \/ i = m + 1
    BY <1>8
  <2>4. CASE u[1].lost
    <3>1. T = S \cup {m + 1}
      BY <1>1, <1>3, <1>4, <2>1, <2>2, <2>3, <2>4
    <3>2. m + 1 \notin S
      BY <1>5
    <3>3. Cardinality(S \cup {m + 1}) = Cardinality(S) + 1
      BY <1>6, <3>2, FS_AddElement
    <3> QED
      BY <2>4, <3>1, <3>3
  <2>5. CASE ~u[1].lost
    <3>1. T = S
      BY <1>1, <1>3, <1>4, <2>1, <2>2, <2>3, <2>5
    <3> QED
      BY <1>6, <2>5, <3>1
  <2> QED
    BY <2>4, <2>5
<1>9. Losses(o) = Cardinality(S) /\ Losses(o \o u) = Cardinality(T)
  BY <1>2, <1>4 DEF Losses
<1> QED
  BY <1>1, <1>6, <1>7, <1>8, <1>9

\* A sequence begins a longer one.
LEMMA Prefixed ==
  ASSUME NEW S, NEW a \in Seq(S), NEW b \in Seq(S), NEW c, c = a \o b
  PROVE  IsPrefix(a, c)
<1>1. PICK m \in Nat, n \in Nat : m = Len(a) /\ n = Len(b)
  BY LenProperties
<1>2. c \in Seq(S) /\ Len(c) = m + n /\ \A i \in 1 .. m + n : c[i] =
        IF i <= m THEN a[i] ELSE b[i - m]
  BY <1>1, ConcatProperties
<1>3. SubSeq(c, 1, m) = SubSeq(a, 1, m)
  <2>1. CASE m = 0
    <3>1. SubSeq(a, 1, 0) = <<>> /\ SubSeq(c, 1, 0) = <<>>
      BY SubSeqEmpty
    <3> QED
      BY <2>1, <3>1
  <2>2. CASE m # 0
    <3>1. 1 \in 1 .. Len(a) /\ m \in 1 .. Len(a)
      BY <1>1, <2>2
    <3>2. SubSeq(a \o b, 1, m) = SubSeq(a, 1, m)
      BY <3>1, SubSeqOfConcat1
    <3> QED
      BY <3>2
  <2> QED
    BY <2>1, <2>2
<1> QED
  BY <1>1, <1>2, <1>3 DEF IsPrefix

\* What a look at the FIFO that is no longer true will cost.
Debt(fr, sp) ==
  LET f == fr[Len(fr)] IN IF fr # <<>> /\ f.at = "write" /\
      (Len(fr) = 2 \/ sp = 0) THEN 1 ELSE 0

\* The invariant of the texts, of the values the variables have.
Kept(n, ms, fr, o, sp, i) ==
  /\ n \in Nat /\ ms \in Seq(Seq(Item)) /\ Len(ms) = n
  /\ fr \in Seq(Frame) /\ \A k \in DOMAIN fr : fr[k].id \in 1 .. n
  /\ o \in Seq(Written) /\ \A j \in DOMAIN o : o[j].id \in 1 .. n
  /\ sp \in 0 .. DEPTH /\ i \in Nat
  /\ Len(fr) <= 2 /\ (Len(fr) = 2 => fr[1].id # fr[2].id)
  /\ \A id \in 1 .. n : (\A k \in DOMAIN fr : fr[k].id # id) =>
      Said(o, id) = MeaningOf(ms[id])
  /\ \A k \in DOMAIN fr : Underway(fr[k], ms[fr[k].id], Said(o, fr[k].id))
  /\ Len(fr) = 2 /\ fr[1].at = "write" => sp > 0
  /\ Losses(o) + Debt(fr, sp) <= i

\* The innermost message changed, the others as they were.
LEMMA TopChanged ==
  ASSUME NEW S, NEW fr \in Seq(S), fr # <<>>, NEW g \in S, NEW w, w = <<g>> \o Tail(fr)
  PROVE  /\ w \in Seq(S) /\ w # <<>> /\ Len(w) = Len(fr) /\ w[1] = g /\ Head(fr) = fr[1]
         /\ 1 \in 1 .. Len(fr)
         /\ \A k \in 1 .. Len(fr) : k # 1 => w[k] = fr[k]
<1>1. PICK n \in Nat : n = Len(fr) /\ n > 0
  BY LenProperties, EmptySeq
<1>2. PICK t \in Seq(S) : t = Tail(fr) /\ Len(t) = n - 1 /\
        \A k \in 1 .. n - 1 : t[k] = fr[k + 1]
  <2>1. Tail(fr) \in Seq(S) /\ Len(Tail(fr)) = Len(fr) - 1
        /\ \A k \in 1 .. Len(Tail(fr)) : Tail(fr)[k] = fr[k + 1]
    BY HeadTailProperties
  <2>2. PICK t : t = Tail(fr)
    OBVIOUS
  <2> QED
    BY <1>1, <2>1, <2>2
<1>3. PICK u \in Seq(S) : u = <<g>> /\ Len(u) = 1 /\ u[1] = g
  <2>1. <<g>> \in Seq(S) /\ Len(<<g>>) = 1 /\ <<g>>[1] = g
    OBVIOUS
  <2> QED
    BY <2>1
<1>4. u \o t \in Seq(S) /\ Len(u \o t) = Len(u) + Len(t)
      /\ \A k \in 1 .. Len(u) + Len(t) : (u \o t)[k] =
          IF k <= Len(u) THEN u[k] ELSE t[k - Len(u)]
  BY ConcatProperties
<1>5. w = u \o t
  BY <1>2, <1>3
<1>6. w \in Seq(S) /\ Len(w) = n /\ \A k \in 1 .. n : w[k] = IF k <= 1 THEN u[k] ELSE t[k - 1]
  BY <1>2, <1>3, <1>4, <1>5
<1>7. w[1] = g
  BY <1>1, <1>3, <1>6
<1>8. \A k \in 1 .. n : k # 1 => w[k] = fr[k]
  <2> SUFFICES ASSUME NEW k \in 1 .. n, k # 1 PROVE w[k] = fr[k]
    OBVIOUS
  <2>1. ~(k <= 1) /\ k - 1 \in 1 .. n - 1 /\ (k - 1) + 1 = k
    OBVIOUS
  <2> QED
    BY <1>2, <1>6, <2>1
<1>9. Head(fr) = fr[1]
  OBVIOUS
<1>10. w # <<>>
  BY <1>1, <1>6, EmptySeq
<1> QED
  BY <1>1, <1>6, <1>7, <1>8, <1>9, <1>10

\* The innermost message is over.
LEMMA TopOver ==
  ASSUME NEW n, NEW ms, NEW fr, NEW o, NEW sp, NEW i, Kept(n, ms, fr, o, sp, i), fr # <<>>,
         Head(fr).pending = <<>>, Head(fr).fmt = <<>>, Head(fr).at = "format"
  PROVE  Kept(n, ms, Tail(fr), o, sp, i)
<1>1. PICK m : m = Len(fr)
  OBVIOUS
<1>2. m = Len(fr) /\ m \in Nat /\ m > 0 /\ m <= 2 /\ DOMAIN fr = 1 .. m
  <2>1. fr \in Seq(Frame) /\ Len(fr) <= 2
    BY DEF Kept
  <2>2. m \in Nat /\ DOMAIN fr = 1 .. m
    BY <1>1, <2>1, LenProperties
  <2>3. m # 0
    BY <1>1, <2>1, EmptySeq
  <2> QED
    BY <1>1, <2>1, <2>2, <2>3
<1>3. PICK t \in Seq(Frame) : /\ t = Tail(fr) /\ Len(t) = m - 1 /\ DOMAIN t = 1 .. m - 1
                              /\ \A k \in 1 .. m - 1 : t[k] = fr[k + 1]
  <2>1. Tail(fr) \in Seq(Frame) /\ Len(Tail(fr)) = Len(fr) - 1
        /\ \A k \in 1 .. Len(Tail(fr)) : Tail(fr)[k] = fr[k + 1]
    BY HeadTailProperties DEF Kept
  <2>2. PICK t \in Seq(Frame) : t = Tail(fr)
    BY <2>1
  <2>3. DOMAIN t = 1 .. Len(t)
    BY LenProperties
  <2> QED
    BY <1>2, <2>1, <2>2, <2>3
<1>4. PICK f : f = fr[1] /\ f = Head(fr)
  BY DEF Kept
<1>5. PICK d : d = f.id
  OBVIOUS
<1>6. f \in Frame /\ d \in 1 .. n /\ Underway(f, ms[d], Said(o, d))
  <2>1. 1 \in DOMAIN fr /\ 1 \in 1 .. Len(fr)
    BY <1>2
  <2>2. fr \in Seq(Frame)
    BY DEF Kept
  <2>3. fr[1] \in Frame
    BY <2>1, <2>2, ElementOfSeq
  <2>4. fr[1].id \in 1 .. n /\ Underway(fr[1], ms[fr[1].id], Said(o, fr[1].id))
    BY <2>1 DEF Kept
  <2> QED
    BY <1>4, <1>5, <2>3, <2>4
<1>7. ms[d] \in Seq(Item) /\ Said(o, d) \in Seq(Char)
  <2>1. ms[d] \in Seq(Item)
    BY <1>6, ElementOfSeq DEF Kept
  <2>2. Said(o, d) \in Seq(Char)
    BY SaidIs DEF Kept
  <2> QED
    BY <2>1, <2>2
<1>8. Said(o, d) = MeaningOf(ms[d])
  <2>1. PICK k \in 0 .. Len(ms[d]) : Reached(f, k, ms[d], Said(o, d))
    BY <1>6 DEF Underway
  <2>2. PICK a, b : a = ms[d] /\ b = Said(o, d)
    OBVIOUS
  <2>3. Telling(f, k, a, b)
    BY <1>6, <1>7, <2>1, <2>2 DEF Telling
  <2> QED
    BY <1>4, <2>2, <2>3, ReadAll
<1>9. \A k \in 1 .. m - 1 : k + 1 \in DOMAIN fr
  BY <1>2
<1>10. \A id \in 1 .. n : (\A k \in DOMAIN t : t[k].id # id) =>
         Said(o, id) = MeaningOf(ms[id])
  <2> SUFFICES ASSUME NEW id \in 1 .. n, \A k \in DOMAIN t : t[k].id # id
               PROVE  Said(o, id) = MeaningOf(ms[id])
    OBVIOUS
  <2>1. CASE id = d
    BY <1>8, <2>1
  <2>2. CASE id # d
    <3>1. \A k \in DOMAIN fr : fr[k].id # id
      <4> SUFFICES ASSUME NEW k \in DOMAIN fr PROVE fr[k].id # id
        OBVIOUS
      <4>1. CASE k = 1
        BY <1>4, <1>5, <2>2, <4>1
      <4>2. CASE k # 1
        <5>1. k - 1 \in 1 .. m - 1 /\ (k - 1) + 1 = k
          BY <1>2, <4>2
        <5>2. t[k - 1] = fr[k] /\ k - 1 \in DOMAIN t
          BY <1>3, <5>1
        <5> QED
          BY <5>2
      <4> QED
        BY <4>1, <4>2
    <3> QED
      BY <3>1 DEF Kept
  <2> QED
    BY <2>1, <2>2
<1>11. Losses(o) + Debt(t, sp) <= i
  <2>1. Losses(o) \in Nat /\ i \in Nat /\ Losses(o) + Debt(fr, sp) <= i
    <3>1. o \in Seq(Written) /\ <<>> \in Seq(Written)
      BY DEF Kept
    <3>2. Losses(o) \in Nat
      BY <3>1, LossesMore
    <3> QED
      BY <3>2 DEF Kept
  <2>2. CASE m = 1
    <3>1. t = <<>>
      BY <1>3, <2>2, EmptySeq
    <3>2. Debt(t, sp) = 0 /\ Debt(fr, sp) = 0
      BY <1>2, <1>4, <2>2, <3>1 DEF Debt
    <3> QED
      BY <2>1, <3>2
  <2>3. CASE m = 2
    <3>1. Len(t) = 1 /\ t[1] = fr[2] /\ Len(fr) = 2
      BY <1>2, <1>3, <2>3
    <3>2. Debt(fr, sp) = IF fr[2].at = "write" THEN 1 ELSE 0
      BY <3>1 DEF Debt
    <3>3. Debt(t, sp) = IF t # <<>> /\ fr[2].at = "write" /\ sp = 0 THEN 1 ELSE 0
      BY <3>1 DEF Debt
    <3>4. Debt(t, sp) \in {0, 1} /\ Debt(fr, sp) \in {0, 1} /\
            (Debt(t, sp) = 1 => Debt(fr, sp) = 1)
      BY <3>2, <3>3
    <3> QED
      BY <2>1, <3>4
  <2> QED
    BY <1>2, <2>2, <2>3
<1>12. Len(t) <= 2 /\ Len(t) # 2
  <2>1. m \in Nat /\ m <= 2
    BY <1>2
  <2>2. m - 1 <= 2 /\ m - 1 # 2
    BY <2>1
  <2> QED
    BY <1>3, <2>2
<1>13. \A k \in DOMAIN t : t[k].id \in 1 .. n /\ Underway(t[k], ms[t[k].id], Said(o, t[k].id))
  BY <1>3, <1>9 DEF Kept
<1> QED
  BY <1>3, <1>10, <1>11, <1>12, <1>13 DEF Kept

\* The innermost message goes on, with the characters that are out and the room there is.
LEMMA TopGoesOn ==
  ASSUME NEW n, NEW ms, NEW fr, NEW o, NEW sp, NEW i, Kept(n, ms, fr, o, sp, i), fr # <<>>,
         NEW f, f = Head(fr), NEW g \in Frame, g.id = f.id, NEW w, w = <<g>> \o Tail(fr),
         NEW q \in Seq(Written), \A j \in DOMAIN q : q[j].id \in 1 .. n,
         \A id \in 1 .. n : id # f.id => Said(q, id) = Said(o, id),
         Underway(g, ms[f.id], Said(q, f.id)),
         NEW rp \in 0 .. DEPTH, Len(fr) = 2 /\ g.at = "write" => rp > 0,
         Losses(q) + Debt(w, rp) <= i
  PROVE  Kept(n, ms, w, q, rp, i)
<1>1. /\ fr \in Seq(Frame) /\ Len(fr) <= 2 /\ (Len(fr) = 2 => fr[1].id # fr[2].id)
      /\ \A k \in DOMAIN fr : fr[k].id \in 1 .. n
      /\ \A id \in 1 .. n : (\A k \in DOMAIN fr : fr[k].id # id) =>
          Said(o, id) = MeaningOf(ms[id])
      /\ \A k \in DOMAIN fr : Underway(fr[k], ms[fr[k].id], Said(o, fr[k].id))
  BY DEF Kept
<1>2. /\ w \in Seq(Frame) /\ w # <<>> /\ Len(w) = Len(fr) /\ w[1] = g /\ f = fr[1]
      /\ 1 \in 1 .. Len(fr)
      /\ \A k \in 1 .. Len(fr) : k # 1 => w[k] = fr[k]
  BY <1>1, TopChanged
<1>3. PICK m : m = Len(fr)
  OBVIOUS
<1>4. m = Len(fr) /\ m \in Nat /\ m <= 2 /\ m > 0 /\ DOMAIN fr = 1 .. m /\ DOMAIN w = 1 .. m
  <2>1. m \in Nat /\ DOMAIN fr = 1 .. m
    BY <1>3, <1>1, LenProperties
  <2>2. DOMAIN w = 1 .. m
    BY <1>3, <1>2, LenProperties
  <2>3. m # 0
    BY <1>3, <1>1, EmptySeq
  <2> QED
    BY <1>3, <1>1, <2>1, <2>2, <2>3
<1>5. PICK d \in 1 .. n : d = f.id
  BY <1>1, <1>2, <1>4
<1>6. \A k \in DOMAIN w : w[k].id = fr[k].id
  BY <1>2, <1>4
<1>7. \A k \in DOMAIN w : w[k].id \in 1 .. n
  BY <1>1, <1>4, <1>6
<1>8. Len(w) = 2 => w[1].id # w[2].id
  <2> SUFFICES ASSUME m = 2 PROVE w[1].id # w[2].id
    BY <1>2, <1>4
  <2>1. 1 \in DOMAIN w /\ 2 \in DOMAIN w
    BY <1>4
  <2> QED
    BY <1>1, <1>4, <1>6, <2>1
<1>9. \A id \in 1 .. n : (\A k \in DOMAIN w : w[k].id # id) => Said(q, id) = MeaningOf(ms[id])
  <2> SUFFICES ASSUME NEW id \in 1 .. n,
                      \A k \in DOMAIN w : w[k].id # id PROVE Said(q, id) = MeaningOf(ms[id])
    OBVIOUS
  <2>1. \A k \in DOMAIN fr : fr[k].id # id
    BY <1>4, <1>6
  <2>2. id # d
    BY <1>2, <1>4, <1>5, <2>1
  <2> QED
    BY <1>1, <1>5, <2>1, <2>2
<1>10. \A k \in DOMAIN w : Underway(w[k], ms[w[k].id], Said(q, w[k].id))
  <2> SUFFICES ASSUME NEW k \in DOMAIN w PROVE Underway(w[k], ms[w[k].id], Said(q, w[k].id))
    OBVIOUS
  <2>1. CASE k = 1
    BY <1>2, <1>5, <2>1
  <2>2. CASE k # 1
    <3>1. k = 2 /\ m = 2 /\ k \in DOMAIN fr
      BY <1>4, <2>2
    <3>2. w[k] = fr[k]
      BY <1>2, <1>4, <2>2
    <3>3. fr[k].id # d /\ fr[k].id \in 1 .. n
      BY <1>1, <1>2, <1>4, <1>5, <3>1
    <3>4. Said(q, fr[k].id) = Said(o, fr[k].id)
      BY <1>5, <3>3
    <3>5. Underway(fr[k], ms[fr[k].id], Said(o, fr[k].id))
      BY <1>1, <3>1
    <3> QED
      BY <3>2, <3>4, <3>5
  <2> QED
    BY <2>1, <2>2
<1>11. Len(w) = 2 /\ w[1].at = "write" => rp > 0
  BY <1>2
<1>12. n \in Nat /\ ms \in Seq(Seq(Item)) /\ Len(ms) = n /\ i \in Nat
  BY DEF Kept
<1>13. Len(w) <= 2
  BY <1>2, <1>4
<1> QED
  BY <1>2, <1>7, <1>8, <1>9, <1>10, <1>11, <1>12, <1>13 DEF Kept

\* The room is another.
LEMMA RoomChanged ==
  ASSUME NEW n, NEW ms, NEW fr, NEW o, NEW sp, NEW i, Kept(n, ms, fr, o, sp, i),
         NEW rp \in 0 .. DEPTH, Len(fr) = 2 /\ fr[1].at = "write" => rp > 0,
         NEW j \in Nat, Losses(o) + Debt(fr, rp) <= j
  PROVE  Kept(n, ms, fr, o, rp, j)
BY DEF Kept

\* A message begins, within another or alone.
LEMMA MessageBegins ==
  ASSUME NEW n, NEW ms, NEW fr, NEW o, NEW sp, NEW i, Kept(n, ms, fr, o, sp, i),
         Len(fr) <= 1,
         NEW m \in Seq(Item), NEW g \in Frame, g.id = n + 1, g.at = "format",
         g.state = "chars", g.pending = <<>>,
         g.fmt = FormatOf(m), g.args = ArgsOf(m),
         g.by = "alt_printf" => \A k \in DOMAIN m : Simple(m[k]),
         NEW j \in Nat, fr = <<>> => j >= i,
         fr # <<>> => j >= i + (IF Head(fr).at = "write" THEN 1 ELSE 0),
         NEW l \in Nat, l = n + 1
  PROVE  Kept(l, Append(ms, m), <<g>> \o fr, o, sp, j)
<1>1. /\ n \in Nat /\ ms \in Seq(Seq(Item)) /\ Len(ms) = n
      /\ fr \in Seq(Frame) /\ \A k \in DOMAIN fr : fr[k].id \in 1 .. n
      /\ o \in Seq(Written) /\ \A h \in DOMAIN o : o[h].id \in 1 .. n
      /\ sp \in 0 .. DEPTH /\ i \in Nat /\ Losses(o) + Debt(fr, sp) <= i
      /\ \A id \in 1 .. n : (\A k \in DOMAIN fr : fr[k].id # id) =>
          Said(o, id) = MeaningOf(ms[id])
      /\ \A k \in DOMAIN fr : Underway(fr[k], ms[fr[k].id], Said(o, fr[k].id))
  BY DEF Kept
<1>2. PICK s \in Nat : s = Len(fr) /\ s <= 1 /\ DOMAIN fr = 1 .. s
  BY <1>1, LenProperties
<1>3. PICK w \in Seq(Frame) : /\ w = <<g>> \o fr /\ Len(w) = s + 1 /\ w[1] = g
                              /\ DOMAIN w = 1 .. s + 1
                              /\ \A k \in 2 .. s + 1 : w[k] = fr[k - 1]
  <2>1. PICK u \in Seq(Frame) : u = <<g>> /\ Len(u) = 1 /\ u[1] = g
    <3>1. <<g>> \in Seq(Frame) /\ Len(<<g>>) = 1 /\ <<g>>[1] = g
      OBVIOUS
    <3> QED
      BY <3>1
  <2>2. u \o fr \in Seq(Frame) /\ Len(u \o fr) = Len(u) + Len(fr)
        /\ \A k \in 1 .. Len(u) + Len(fr) : (u \o fr)[k] =
            IF k <= Len(u) THEN u[k] ELSE fr[k - Len(u)]
    BY <1>1, ConcatProperties
  <2>3. PICK w \in Seq(Frame) : w = u \o fr
    BY <2>2
  <2>4. Len(w) = s + 1 /\ \A k \in 1 .. s + 1 : w[k] = IF k <= 1 THEN u[k] ELSE fr[k - 1]
    BY <1>2, <2>1, <2>2, <2>3
  <2>5. DOMAIN w = 1 .. s + 1
    BY <2>4, LenProperties
  <2>6. w[1] = g /\ \A k \in 2 .. s + 1 : w[k] = fr[k - 1]
    BY <1>2, <2>1, <2>4
  <2> QED
    BY <2>1, <2>3, <2>4, <2>5, <2>6
<1>4. PICK mm \in Seq(Seq(Item)) : /\ mm = Append(ms, m) /\ Len(mm) = n + 1 /\ mm[n + 1] = m
                                   /\ \A id \in 1 .. n : mm[id] = ms[id]
  <2>1. /\ Append(ms, m) \in Seq(Seq(Item)) /\ Len(Append(ms, m)) = Len(ms) + 1
        /\ \A id \in 1 .. Len(ms) + 1 : Append(ms, m)[id] =
            IF id <= Len(ms) THEN ms[id] ELSE m
    BY <1>1, AppendProperties
  <2>2. PICK mm : mm = Append(ms, m)
    OBVIOUS
  <2>3. mm \in Seq(Seq(Item)) /\ Len(mm) = n + 1
        /\ \A id \in 1 .. n + 1 : mm[id] = IF id <= n THEN ms[id] ELSE m
    BY <1>1, <2>1, <2>2
  <2>4. n + 1 \in 1 .. n + 1 /\ ~(n + 1 <= n) /\ \A id \in 1 .. n : id \in 1 .. n + 1 /\
          id <= n
    BY <1>1
  <2>5. mm[n + 1] = m /\ \A id \in 1 .. n : mm[id] = ms[id]
    BY <2>3, <2>4
  <2> QED
    BY <2>2, <2>3, <2>5
<1>5. \A id \in 1 .. n : id \in 1 .. l /\ id # l
  BY <1>1
<1>6. \A k \in DOMAIN w : w[k].id \in 1 .. l
  <2> SUFFICES ASSUME NEW k \in DOMAIN w PROVE w[k].id \in 1 .. l
    OBVIOUS
  <2>1. CASE k = 1
    BY <1>1, <1>3, <2>1
  <2>2. CASE k # 1
    <3>1. k \in 2 .. s + 1 /\ k - 1 \in 1 .. s
      BY <1>2, <1>3, <2>2
    <3>2. fr[k - 1].id \in 1 .. n
      BY <1>1, <1>2, <3>1
    <3> QED
      BY <1>3, <1>5, <3>1, <3>2
  <2> QED
    BY <2>1, <2>2
<1>7. \A h \in DOMAIN o : o[h].id \in 1 .. l
  BY <1>1, <1>5
<1>8. Said(o, l) = <<>>
  <2>1. \A h \in DOMAIN o : o[h].id # l
    BY <1>1, <1>5
  <2> QED
    BY <1>1, <2>1, SaidNothing
<1>9. Underway(g, m, <<>>)
  <2>1. 0 \in 0 .. Len(m) /\ Reached(g, 0, m, <<>>)
    BY Begun
  <2> QED
    BY <2>1 DEF Underway
<1>10. \A id \in 1 .. l : (\A k \in DOMAIN w : w[k].id # id) =>
         Said(o, id) = MeaningOf(mm[id])
  <2> SUFFICES ASSUME NEW id \in 1 .. l,
                      \A k \in DOMAIN w : w[k].id # id PROVE Said(o, id) = MeaningOf(mm[id])
    OBVIOUS
  <2>1. 1 \in DOMAIN w
    BY <1>2, <1>3
  <2>2. id # l
    BY <1>3, <2>1
  <2>3. id \in 1 .. n
    BY <1>1, <2>2
  <2>4. \A k \in DOMAIN fr : fr[k].id # id
    <3> SUFFICES ASSUME NEW k \in DOMAIN fr PROVE fr[k].id # id
      OBVIOUS
    <3>1. k + 1 \in 2 .. s + 1 /\ k + 1 \in 1 .. s + 1 /\ (k + 1) - 1 = k
      BY <1>2
    <3>2. w[k + 1] = fr[k]
      BY <1>3, <3>1
    <3> QED
      BY <1>3, <3>1, <3>2
  <2> QED
    BY <1>1, <1>4, <2>3, <2>4
<1>11. \A k \in DOMAIN w : Underway(w[k], mm[w[k].id], Said(o, w[k].id))
  <2> SUFFICES ASSUME NEW k \in DOMAIN w PROVE Underway(w[k], mm[w[k].id], Said(o, w[k].id))
    OBVIOUS
  <2>1. CASE k = 1
    BY <1>3, <1>4, <1>8, <1>9, <2>1
  <2>2. CASE k # 1
    <3>1. k \in 2 .. s + 1 /\ k - 1 \in 1 .. s
      BY <1>2, <1>3, <2>2
    <3>2. w[k] = fr[k - 1] /\ k - 1 \in DOMAIN fr
      BY <1>2, <1>3, <3>1
    <3>3. fr[k - 1].id \in 1 .. n
      BY <1>1, <3>2
    <3>4. Underway(fr[k - 1], ms[fr[k - 1].id], Said(o, fr[k - 1].id))
      BY <1>1, <3>2
    <3>5. mm[fr[k - 1].id] = ms[fr[k - 1].id]
      BY <1>4, <3>3
    <3> QED
      BY <3>2, <3>4, <3>5
  <2> QED
    BY <2>1, <2>2
<1>12. Len(w) = 2 => w[1].id # w[2].id
  <2> SUFFICES ASSUME s = 1 PROVE w[1].id # w[2].id
    BY <1>2, <1>3
  <2>1. w[2] = fr[1] /\ 1 \in DOMAIN fr
    BY <1>2, <1>3
  <2>2. fr[1].id \in 1 .. n
    BY <1>1, <2>1
  <2> QED
    BY <1>3, <1>5, <2>1, <2>2
<1>13. w[1].at # "write"
  BY <1>3
<1>14. Losses(o) + Debt(w, sp) <= j
  <2>1. Losses(o) \in Nat
    BY <1>1, LossesMore
  <2>2. CASE s = 0
    <3>1. fr = <<>> /\ Len(w) = 1
      BY <1>1, <1>2, <1>3, <2>2, EmptySeq
    <3>2. Debt(w, sp) = 0 /\ Debt(fr, sp) = 0
      BY <1>3, <3>1 DEF Debt
    <3> QED
      BY <1>1, <2>1, <3>1, <3>2
  <2>3. CASE s = 1
    <3>1. fr # <<>> /\ Len(w) = 2 /\ w[2] = fr[1] /\ Head(fr) = fr[1]
      BY <1>2, <1>3, <2>3
    <3>2. PICK a \in {0, 1}, b \in {0, 1} : a = Debt(fr, sp) /\
            b = (IF fr[1].at = "write" THEN 1 ELSE 0)
      BY DEF Debt
    <3>3. Debt(w, sp) <= b
      BY <3>1, <3>2 DEF Debt
    <3>4. PICK d \in {0, 1} : d = Debt(w, sp)
      BY DEF Debt
    <3>5. Losses(o) + a <= i
      BY <1>1, <3>2
    <3>6. i \in Nat /\ j \in Nat /\ j >= i + b
      BY <1>1, <3>1, <3>2
    <3>7. d <= b
      BY <3>3, <3>4
    <3>8. Losses(o) + d <= j
      BY <2>1, <3>5, <3>6, <3>7
    <3> QED
      BY <3>4, <3>8
  <2> QED
    BY <1>2, <2>2, <2>3
<1>15. Len(w) <= 2
  BY <1>2, <1>3
<1>16. Kept(l, mm, w, o, sp, j)
  BY <1>1, <1>3, <1>4, <1>6, <1>7, <1>10, <1>11, <1>12, <1>13, <1>14, <1>15 DEF Kept
<1> QED
  BY <1>3, <1>4, <1>16

\* The invariant of the texts speaks of the values of their variables.
Settled == alt_system_clock_in_sec \in 0 .. LONG - 1 /\ interrupts \in Nat

\* That is all it says,
LEMMA TextInvIs == TextInv <=> Kept(ids, messages, frames, printed, space, intrusions) /\
    Settled
<1>1. \A id : TextOf(id) = Said(printed, id)
  BY DEF TextOf, Said
<1>2. Lost = Losses(printed) /\ Owes = Debt(frames, space)
  BY DEF Lost, Losses, Owes, Debt
<1>3. \A id : ~Printing(id) <=> \A k \in DOMAIN frames : frames[k].id # id
  BY DEF Printing
<1>4. TypeOK <=> /\ ids \in Nat /\ messages \in Seq(Seq(Item)) /\ Len(messages) = ids
                 /\ frames \in Seq(Frame) /\ \A k \in DOMAIN frames :
                     frames[k].id \in 1 .. ids
                 /\ printed \in Seq(Written) /\
                     \A i \in DOMAIN printed : printed[i].id \in 1 .. ids
                 /\ space \in 0 .. DEPTH /\ Settled /\ intrusions \in Nat
  BY DEF TypeOK, Settled
<1>5. ASSUME TextInv PROVE Kept(ids, messages, frames, printed, space, intrusions) /\ Settled
  BY <1>1, <1>2, <1>3, <1>4, <1>5, Zenon DEF TextInv, Kept
<1>6. ASSUME Kept(ids, messages, frames, printed, space, intrusions), Settled PROVE TextInv
  BY <1>1, <1>2, <1>3, <1>4, <1>6, Zenon DEF TextInv, Kept
<1> QED
  BY <1>5, <1>6

\* now and after a step.
LEMMA TextInvNext == TextInv' <=>
    Kept(ids', messages', frames', printed', space', intrusions') /\ Settled'
<1>1. (TextInv <=> Kept(ids, messages, frames, printed, space, intrusions) /\ Settled)'
  BY TextInvIs, PTL
<1>2. Kept(ids, messages, frames, printed, space, intrusions)'
        <=> Kept(ids', messages', frames', printed', space', intrusions')
  OBVIOUS
<1> QED
  BY <1>1, <1>2

\* An item is one, if what its letter asks is there.
LEMMA ConversionIs ==
  ASSUME NEW letter \in Numeric \cup {"plain", "%", "c", "s"}, NEW zero \in BOOLEAN,
         NEW width \in 0 .. 9,
         NEW extra \in {<<>>, <<".", "2", "l">>}, NEW n \in 0 .. LONG - 1,
         NEW s \in Seq(Char),
         NEW item,
         item =
             [letter |-> letter, zero |-> zero, width |-> width, extra |-> extra, n |-> n, s |-> s],
         letter \notin Numeric => ~zero /\ extra = <<>>,
         letter \in {"plain", "%"} => width = 0,
         letter \in {"plain", "c"} => Len(s) = 1 /\ s[1] \notin {"%", NUL}
  PROVE  item \in Item
<1>1. Proper(item)
  BY DEF Proper
<1> QED
  BY <1>1 DEF Item

\* What the parts of the program print.
LEMMA Longest == LONG \in Nat /\ LONG >= 16 /\ DEPTH \in 1 .. LONG - 1
<1>1. LONG \in Nat /\ LONG >= 16
  BY LongIs
<1> QED
  BY <1>1, TextAssumption DEF TextBounds

\* A number.
LEMMA NumberIs ==
  ASSUME NEW letter \in Numeric, NEW n \in 0 .. LONG - 1
  PROVE  Number(letter, n) \in Item
<1>1. <<>> \in Seq(Char) /\ 0 \in 0 .. 9 /\ <<>> \in {<<>>, <<".", "2", "l">>} /\
        FALSE \in BOOLEAN
  OBVIOUS
<1>2. letter \notin {"plain", "%", "c"}
  BY DEF Numeric
<1>3. Number(letter, n) =
        [letter |-> letter, zero |-> FALSE, width |-> 0, extra |-> <<>>, n |-> n, s |-> <<>>]
  BY DEF Number, Conversion
<1> QED
  BY <1>1, <1>2, <1>3, ConversionIs

\* The closing item,
LEMMA ClosingIs == Closing \in Item
<1>1. 7 \in 0 .. LONG - 1
  BY Longest
<1>2. PICK x : x = <<".", "2", "l">>
  OBVIOUS
<1>3. PICK item : item =
        [letter |-> "d", zero |-> FALSE, width |-> 0, extra |-> x, n |-> 7, s |-> <<>>]
  OBVIOUS
<1>4. Closing = item
  <2>1. PICK m : m = 7
    OBVIOUS
  <2>2. PICK e : e = Number("d", m)
    OBVIOUS
  <2>3. e = [letter |-> "d", zero |-> FALSE, width |-> 0, extra |-> <<>>, n |-> m, s |-> <<>>]
    BY <2>2 DEF Number, Conversion
  <2>4. Closing = [e EXCEPT !.extra = x]
    BY <1>2, <2>1, <2>2 DEF Closing
  <2>5. PICK l, b, w, y : l = "d" /\ b = FALSE /\ w = 0 /\ y = <<>>
    OBVIOUS
  <2>6. e = [letter |-> l, zero |-> b, width |-> w, extra |-> y, n |-> m, s |-> y]
    BY <2>3, <2>5
  <2>7. item = [letter |-> l, zero |-> b, width |-> w, extra |-> x, n |-> m, s |-> y]
    BY <1>3, <2>1, <2>5
  <2>8. Closing = [letter |-> l, zero |-> b, width |-> w, extra |-> x, n |-> m, s |-> y]
    BY <2>4, <2>6
  <2> QED
    BY <2>7, <2>8
<1>5. "d" \in Numeric /\ <<>> \in Seq(Char) /\ 0 \in 0 .. 9 /\ FALSE \in BOOLEAN
  BY DEF Numeric
<1>6. PICK letter : letter = "d"
  OBVIOUS
<1>7. letter \in Numeric \cup {"plain", "%", "c", "s"} /\ letter \in Numeric /\
        letter \notin {"plain", "%", "c"}
  BY <1>5, <1>6
<1>8. x \in {<<>>, <<".", "2", "l">>}
  BY <1>2
<1>9. item =
        [letter |-> letter, zero |-> FALSE, width |-> 0, extra |-> x, n |-> 7, s |-> <<>>]
  BY <1>3, <1>6
<1>10. item \in Item
  BY <1>1, <1>5, <1>7, <1>8, <1>9, ConversionIs
<1> QED
  BY <1>4, <1>10

\* a percent sign,
LEMMA PercentIs == Number("%", 0) \in Item
<1>1. 0 \in 0 .. LONG - 1 /\ <<>> \in Seq(Char) /\ 0 \in 0 .. 9 /\ FALSE \in BOOLEAN
  BY Longest
<1>2. PICK item : item =
        [letter |-> "%", zero |-> FALSE, width |-> 0, extra |-> <<>>, n |-> 0, s |-> <<>>]
  OBVIOUS
<1>3. PICK letter : letter = "%"
  OBVIOUS
<1>4. letter \in Numeric \cup {"plain", "%", "c", "s"} /\ letter \notin {"plain", "c"}
  BY <1>3
<1>5. <<>> \in {<<>>, <<".", "2", "l">>}
  OBVIOUS
<1>6. item =
        [letter |-> letter, zero |-> FALSE, width |-> 0, extra |-> <<>>, n |-> 0, s |-> <<>>]
  BY <1>2, <1>3
<1>7. item \in Item
  BY <1>1, <1>4, <1>5, <1>6, ConversionIs
<1> QED
  BY <1>2, <1>7 DEF Number, Conversion

\* a plain b,
LEMMA PlainIs == Plain("b") \in Item
<1>1. 0 \in 0 .. LONG - 1 /\ 0 \in 0 .. 9 /\ FALSE \in BOOLEAN
  BY Longest
<1>2. "b" \in Char
  BY OwnChars, Zenon DEF Own
<1>3. PICK t : t = <<"b">>
  OBVIOUS
<1>4. t \in Seq(Char) /\ Len(t) = 1 /\ t[1] = "b"
  BY <1>2, <1>3
<1>5. "b" # "%" /\ "b" # NUL
  BY DEF NUL
<1>6. PICK item : item =
        [letter |-> "plain", zero |-> FALSE, width |-> 0, extra |-> <<>>, n |-> 0, s |-> t]
  OBVIOUS
<1>7. item \in Item
  BY <1>1, <1>4, <1>5, <1>6, ConversionIs
<1> QED
  BY <1>3, <1>6, <1>7 DEF Plain

\* the conversions of a text,
LEMMA SpellingIs ==
  ASSUME NEW letter \in {"c", "s"}, NEW width \in 0 .. 9, NEW s \in Seq(Char),
         letter = "c" => Len(s) = 1 /\ s[1] \notin {"%", NUL}
  PROVE  Conversion(letter, FALSE, width, 0, s) \in Item
<1>1. 0 \in 0 .. LONG - 1 /\ FALSE \in BOOLEAN /\ letter # "plain" /\ letter # "%"
  BY Longest
<1>2. PICK item : item =
        [letter |-> letter, zero |-> FALSE, width |-> width, extra |-> <<>>, n |-> 0, s |-> s]
  OBVIOUS
<1>3. item \in Item
  BY <1>1, <1>2, ConversionIs
<1> QED
  BY <1>2, <1>3 DEF Conversion

\* the letter q,
LEMMA LetterQ == <<"q">> \in Seq(Char) /\ Len(<<"q">>) = 1 /\ <<"q">>[1] \notin {"%", NUL}
<1>1. "q" \in Char
  BY OwnChars, Zenon DEF Own
<1>2. "q" # "%" /\ "q" # NUL
  BY DEF NUL
<1> QED
  BY <1>1, <1>2

\* and what alt_log_write() takes over of a text.
LEMMA EchoIs ==
  ASSUME NEW s \in Writes, Len(s) >= 2, ECHO_LEN >= 2
  PROVE  Echo(s) \in Seq(Char)
<1>1. s \in Seq(Characters) /\ ECHO_LEN \in Nat
  BY TextAssumption DEF TextBounds
<1>2. PICK n \in Nat : n = Len(s) /\ n >= 2
  BY <1>1, LenProperties
<1>3. PICK m \in Nat : m = (IF ECHO_LEN > Len(s) THEN Len(s) ELSE ECHO_LEN) /\ m >= 2 /\
        m <= n
  BY <1>1, <1>2
<1>4. {NUL, LF, CR, "D"} \subseteq Char /\ EOT \notin Own
  BY OwnChars, Zenon DEF Own
<1>5. PICK copied : copied = [i \in 1 .. m |-> IF i > Len(Upto(s)) THEN NUL ELSE s[i]]
  OBVIOUS
<1>6. \A i \in 1 .. m : copied[i] \in Characters
  <2> SUFFICES ASSUME NEW i \in 1 .. m PROVE copied[i] \in Characters
    OBVIOUS
  <2>1. s[i] \in Characters
    BY <1>1, <1>2, <1>3, ElementOfSeq
  <2>2. NUL \in Characters
    BY <1>4, OwnChars
  <2> QED
    BY <1>5, <2>1, <2>2
<1>7. PICK ended : ended = [copied EXCEPT ![m] = LF]
  OBVIOUS
<1>8. \A i \in 1 .. m : ended[i] \in Characters
  <2> SUFFICES ASSUME NEW i \in 1 .. m PROVE ended[i] \in Characters
    OBVIOUS
  <2>1. LF \in Characters
    BY <1>4, OwnChars
  <2> QED
    BY <1>5, <1>6, <1>7, <2>1
<1>9. PICK shown : shown = [i \in 1 .. m |-> IF ended[i] = EOT THEN "D" ELSE ended[i]]
  OBVIOUS
<1>10. \A i \in 1 .. m : (IF ended[i] = EOT THEN "D" ELSE ended[i]) \in Char
  BY <1>4, <1>8 DEF Char
<1>11. shown \in Seq(Char)
  BY <1>9, <1>10, IsASeq
<1>12. Echo(s) = shown \o <<CR>>
  BY <1>3, <1>5, <1>7, <1>9 DEF Echo
<1>13. <<CR>> \in Seq(Char)
  BY <1>4
<1> QED
  BY <1>11, <1>12, <1>13, ConcatProperties

\* What a division leaves is no more than there was.
LEMMA Smaller ==
  ASSUME NEW n \in Nat, NEW d \in Nat \ {0}
  PROVE  n % d \in Nat /\ n % d <= n
<1>1. PICK q \in Nat, r \in Nat : q = n \div d /\ r = n % d /\ n = q * d + r
  BY Parts
<1>2. q * d \in Nat
  OBVIOUS
<1>3. r <= n
  BY <1>1, <1>2
<1> QED
  BY <1>1, <1>3

\* As many as are shown of the register.
Six(a, b, d, e, g, h) == <<a, b, d, e, g, h>>

\* The fields of the register are numbers.
LEMMA ReportIs ==
  ASSUME NEW sp \in 0 .. DEPTH, NEW c, c = sp * 65536 + 1024 + 512 + 2
  PROVE  Report(c) \in Seq(Item)
<1>1. c \in Nat /\ sp \in Nat /\ DEPTH \in Nat
  BY Longest
<1>2. PICK w \in Nat \ {0} : w = 65536
  OBVIOUS
<1>3. c \div 65536 = sp
  BY <1>1
<1>4. sp % 65536 \in 0 .. LONG - 1
  <2>1. PICK r \in Nat : r = sp % w /\ r <= sp
    BY <1>2, <1>1, Smaller
  <2>2. sp < LONG
    BY <1>1, Longest
  <2> QED
    BY <1>2, <1>1, <2>1, <2>2, Longest
<1>5. Field(c, 65536, 65536) \in 0 .. LONG - 1
  BY <1>3, <1>4 DEF Field
<1>6. \A p \in Nat \ {0} : Field(c, p, 2) \in 0 .. LONG - 1
  <2> SUFFICES ASSUME NEW p \in Nat \ {0} PROVE Field(c, p, 2) \in 0 .. LONG - 1
    OBVIOUS
  <2>1. c \div p \in Nat
    BY <1>1, Parts
  <2>2. (c \div p) % 2 \in 0 .. 2 - 1
    BY <2>1, Parts
  <2> QED
    BY <2>2, Longest DEF Field
<1>7. PICK a \in 0 .. LONG - 1, b \in 0 .. LONG - 1, d \in 0 .. LONG - 1, e \in 0 .. LONG - 1,
           g \in 0 .. LONG - 1, h \in 0 .. LONG - 1 :
        /\ a = Field(c, 65536, 65536) /\ b = Field(c, 1024, 2) /\ d = Field(c, 512, 2)
        /\ e = Field(c, 256, 2) /\ g = Field(c, 2, 2) /\ h = Field(c, 1, 2)
  <2>1. /\ Field(c, 1024, 2) \in 0 .. LONG - 1 /\ Field(c, 512, 2) \in 0 .. LONG - 1
        /\ Field(c, 256, 2) \in 0 .. LONG - 1 /\ Field(c, 2, 2) \in 0 .. LONG - 1
        /\ Field(c, 1, 2) \in 0 .. LONG - 1
    BY <1>6
  <2> QED
    BY <1>5, <2>1
<1>8. PICK R : R = 0 .. LONG - 1
  OBVIOUS
<1>9. PICK t : t = Six(a, b, d, e, g, h)
  OBVIOUS
<1>10. t \in Seq(R) /\ t = <<a, b, d, e, g, h>>
  BY <1>7, <1>8, <1>9 DEF Six
<1>11. Report(c) = [i \in DOMAIN t |-> Number("d", t[i])]
  BY <1>7, <1>10 DEF Report
<1>12. DOMAIN t = 1 .. Len(t) /\ Len(t) \in Nat
  BY <1>10, LenProperties
<1>13. \A i \in 1 .. Len(t) : t[i] \in R
  BY <1>10, ElementOfSeq
<1>14. "d" \in Numeric
  BY DEF Numeric
<1>15. \A i \in 1 .. Len(t) : Number("d", t[i]) \in Item
  <2> SUFFICES ASSUME NEW i \in 1 .. Len(t) PROVE Number("d", t[i]) \in Item
    OBVIOUS
  <2>1. t[i] \in 0 .. LONG - 1
    BY <1>8, <1>13
  <2> QED
    BY <1>14, <2>1, NumberIs
<1>16. [i \in 1 .. Len(t) |-> Number("d", t[i])] \in Seq(Item)
  BY <1>12, <1>15, IsASeq
<1> QED
  BY <1>11, <1>12, <1>16

\* Messages of one, two and three items.
LEMMA ItemsOf ==
  ASSUME NEW a \in Item, NEW b \in Item, NEW c \in Item
  PROVE  <<a>> \in Seq(Item) /\ <<a, b>> \in Seq(Item) /\ <<a, b, c>> \in Seq(Item)
OBVIOUS

\* What is asked of a message that is printed: alt_printf() knows few conversions.
Printable(m, by) ==
  /\ m \in Seq(Item) /\ by \in {"log", "alt_printf"}
  /\ by = "alt_printf" => \A k \in DOMAIN m : Simple(m[k])

\* A call of either printf begins a message, and the invariant of the texts is kept.
LEMMA MessageKeeps ==
  ASSUME NEW m, NEW by, Printable(m, by), Message(m, by),
         Kept(ids, messages, frames, printed, space, intrusions), Len(frames) <= 1,
         printed' = printed, space' = space, intrusions' \in Nat,
         frames = <<>> => intrusions' >= intrusions,
         frames # <<>> => intrusions' >= intrusions + (IF Top.at = "write" THEN 1 ELSE 0)
  PROVE  Kept(ids', messages', frames', printed', space', intrusions')
<1>1. PICK n, ms, fr, o, sp, i, j :
        /\ n = ids /\ ms = messages /\ fr = frames /\ o = printed /\ sp = space
        /\ i = intrusions /\ j = intrusions'
  OBVIOUS
<1>2. Kept(n, ms, fr, o, sp, i) /\ Len(fr) <= 1 /\ j \in Nat
  BY <1>1
<1>3. (fr = <<>> => j >= i) /\
        (fr # <<>> => j >= i + (IF Head(fr).at = "write" THEN 1 ELSE 0))
  BY <1>1 DEF Top
<1>4. n \in Nat
  BY <1>2 DEF Kept
<1>5. PICK l \in Nat : l = n + 1
  BY <1>4
<1>6. m \in Seq(Item) /\ by \in {"log", "alt_printf"}
  BY DEF Printable
<1>7. PICK F, A : F = FormatOf(m) /\ A = ArgsOf(m)
  OBVIOUS
<1>8. F \in Seq(Characters) /\ A \in Seq(Item)
  <2>1. Len(m) \in Nat
    BY <1>6, LenProperties
  <2>2. PICK k \in 0 .. Len(m) : k = 0
    BY <2>1
  <2>3. Leads(m, k, SubSeq(m, k + 1, Len(m)))
    BY <1>6, LaterIs
  <2>4. PICK x : x = SubSeq(m, k + 1, Len(m))
    OBVIOUS
  <2>5. x = m /\ FormatOf(x) \in Seq(Characters) /\ ArgsOf(x) \in Seq(Item)
    BY <2>2, <2>3, <2>4, Zenon DEF Leads
  <2> QED
    BY <1>7, <2>5
<1>9. PICK b \in Int : b = -1
  OBVIOUS
<1>10. PICK e \in Seq(Char) : e = <<>>
  <2>1. <<>> \in Seq(Char)
    OBVIOUS
  <2> QED
    BY <2>1, Zenon
<1>11. PICK g : g = [by |-> by, id |-> l, at |-> "format", state |-> "chars",
                     fmt |-> F, args |-> A, pending |-> e, zero |-> FALSE, before |-> b, after |-> b]
  OBVIOUS
<1>12. g \in Frame
  BY <1>5, <1>6, <1>8, <1>9, <1>10, <1>11 DEF Frame
<1>13. /\ g.id = n + 1 /\ g.at = "format" /\ g.state = "chars" /\ g.pending = <<>>
       /\ g.fmt = FormatOf(m) /\ g.args = ArgsOf(m) /\ g.by = by
  BY <1>5, <1>7, <1>10, <1>11
<1>14. g.by = "alt_printf" => \A k \in DOMAIN m : Simple(m[k])
  BY <1>13 DEF Printable
<1>15. frames' = <<g>> \o fr /\ ids' = l /\ messages' = Append(ms, m)
  BY <1>1, <1>5, <1>7, <1>9, <1>10, <1>11 DEF Message
<1>16. Kept(l, Append(ms, m), <<g>> \o fr, o, sp, j)
  BY <1>2, <1>3, <1>5, <1>6, <1>12, <1>13, <1>14, MessageBegins
<1> QED
  BY <1>1, <1>15, <1>16

\* While nothing is printed: a message of the program.
LEMMA ProgramKeeps ==
  ASSUME NEW m, NEW by, Printable(m, by), Message(m, by), frames = <<>>, Quiet, TextInv
  PROVE  TextInv'
<1>1. Kept(ids, messages, frames, printed, space, intrusions) /\ Settled
  BY TextInvIs
<1>2. printed' = printed /\ space' = space /\ intrusions' = intrusions /\
        interrupts' = interrupts
      /\ alt_system_clock_in_sec' = alt_system_clock_in_sec
  BY DEF Quiet, counters
<1>3. intrusions \in Nat
  BY <1>1 DEF Kept
<1>4. Settled'
  BY <1>1, <1>2 DEF Settled
<1>5. Len(frames) <= 1
  <2>1. Len(frames) = 0
    OBVIOUS
  <2> QED
    BY <2>1
<1>6. intrusions' \in Nat /\ intrusions' >= intrusions
  BY <1>2, <1>3
<1>7. Kept(ids', messages', frames', printed', space', intrusions')
  BY <1>1, <1>2, <1>5, <1>6, MessageKeeps
<1> QED
  BY <1>4, <1>7, TextInvNext

\* Within another: a message of a handler.
LEMMA HandlerKeeps ==
  ASSUME NEW m, Printable(m, "log"), Message(m, "log"), Handler, space' = space, Settled',
         TextInv
  PROVE  TextInv'
<1>1. Kept(ids, messages, frames, printed, space, intrusions) /\ Settled
  BY TextInvIs
<1>2. printed' = printed /\ frames # <<>> /\ Len(frames) = 1
      /\ intrusions' = intrusions + (IF Top.at = "write" THEN 1 ELSE 0)
  BY DEF Handler
<1>3. intrusions \in Nat
  BY <1>1 DEF Kept
<1>4. PICK d \in {0, 1} : d = (IF Top.at = "write" THEN 1 ELSE 0)
  OBVIOUS
<1>5. intrusions' = intrusions + d
  BY <1>2, <1>4
<1>6. intrusions' \in Nat /\ intrusions' >= intrusions + d
  BY <1>3, <1>5
<1>7. Len(frames) <= 1
  BY <1>2
<1>8. Kept(ids', messages', frames', printed', space', intrusions')
  BY <1>1, <1>2, <1>4, <1>6, <1>7, MessageKeeps
<1> QED
  BY <1>8, TextInvNext

\* A handler that is silent, and may fill the FIFO.
LEMMA SilentKeeps ==
  ASSUME Handler, Unprinted, space' \in 0 .. space, Settled', TextInv
  PROVE  TextInv'
<1>1. Kept(ids, messages, frames, printed, space, intrusions) /\ Settled
  BY TextInvIs
<1>2. printed' = printed /\ frames # <<>> /\ Len(frames) = 1 /\ frames' = frames /\
        ids' = ids /\ messages' = messages
      /\ intrusions' = intrusions + (IF Top.at = "write" THEN 1 ELSE 0)
  BY DEF Handler, Unprinted
<1>3. PICK n, ms, fr, o, sp, i, rp, j :
        /\ n = ids /\ ms = messages /\ fr = frames /\ o = printed /\ sp = space
        /\ i = intrusions
        /\ rp = space' /\ j = intrusions'
  OBVIOUS
<1>4. Kept(n, ms, fr, o, sp, i) /\ fr # <<>> /\ Len(fr) = 1
  BY <1>1, <1>2, <1>3
<1>5. i \in Nat /\ sp \in 0 .. DEPTH /\ Losses(o) + Debt(fr, sp) <= i /\ fr \in Seq(Frame) /\
        o \in Seq(Written)
  BY <1>4 DEF Kept
<1>6. rp \in 0 .. DEPTH
  BY <1>3, <1>5, Longest
<1>7. Head(fr) = fr[1]
  BY <1>4, <1>5
<1>8. PICK d \in {0, 1} : d = (IF fr[1].at = "write" THEN 1 ELSE 0)
  OBVIOUS
<1>9. j = i + d /\ j \in Nat
  BY <1>2, <1>3, <1>5, <1>7, <1>8 DEF Top
<1>10. Debt(fr, sp) \in {0, 1} /\ Debt(fr, rp) <= d /\ Debt(fr, rp) \in {0, 1}
  BY <1>4, <1>8 DEF Debt
<1>11. Losses(o) \in Nat
  BY <1>5, LossesMore
<1>12. Losses(o) + Debt(fr, rp) <= j
  BY <1>5, <1>8, <1>9, <1>10, <1>11
<1>13. Len(fr) # 2
  BY <1>4
<1>14. Kept(n, ms, fr, o, rp, j)
  BY <1>4, <1>6, <1>9, <1>12, <1>13, RoomChanged
<1> QED
  BY <1>2, <1>3, <1>14, TextInvNext

\* What the constants say of what is printed.
LEMMA Printed ==
  /\ Numbers \subseteq 0 .. LONG - 1 /\ Widths \subseteq 0 .. 9
  /\ 7 \in 0 .. LONG - 1 /\ 0 \in 0 .. LONG - 1 /\ 0 \in 0 .. 9
BY Longest, TextAssumption DEF TextBounds

\* Any message may be printed by the logging.
LEMMA Logged ==
  ASSUME NEW m \in Seq(Item)
  PROVE  Printable(m, "log")
BY DEF Printable

\* alt_printf() is given simple items.
LEMMA Plainly ==
  ASSUME NEW m \in Seq(Item), \A k \in DOMAIN m : Simple(m[k])
  PROVE  Printable(m, "alt_printf")
BY DEF Printable

\* The messages of ALT_LOG_PRINTF are messages,
LEMMA LogPrintfKeeps == ASSUME TextInv, ALT_LOG_PRINTF PROVE TextInv'
<1>1. frames = <<>> /\ Quiet
  BY DEF ALT_LOG_PRINTF, MayPrint
<1>2. ASSUME NEW letter \in {"d", "i", "u", "o", "x", "X"}, NEW zero \in BOOLEAN,
             NEW width \in Widths,
             NEW n \in Numbers,
             Message(<<Conversion(letter, zero, width, n, <<>>), Closing>>, "log")
      PROVE  TextInv'
  <2>1. PICK item : item =
          [letter |-> letter, zero |-> zero, width |-> width, extra |-> <<>>, n |-> n, s |-> <<>>]
    OBVIOUS
  <2>2. letter \in Numeric \cup {"plain", "%", "c", "s"} /\ letter \in Numeric /\
          letter \notin {"plain", "%", "c"}
    BY DEF Numeric
  <2>3. width \in 0 .. 9 /\ n \in 0 .. LONG - 1
    BY Printed
  <2>4. <<>> \in {<<>>, <<".", "2", "l">>} /\ <<>> \in Seq(Char)
    OBVIOUS
  <2>5. item \in Item
    BY <2>1, <2>2, <2>3, <2>4, ConversionIs
  <2>6. PICK last : last = Closing
    OBVIOUS
  <2>7. PICK m : m = <<item, last>>
    OBVIOUS
  <2>8. last \in Item
    BY <2>6, ClosingIs
  <2>9. m \in Seq(Item)
    BY <2>5, <2>7, <2>8, ItemsOf
  <2>10. Message(m, "log")
    BY <1>2, <2>1, <2>6, <2>7 DEF Conversion
  <2> QED
    BY <1>1, <2>9, <2>10, Logged, ProgramKeeps
<1>3. ASSUME NEW letter \in {"c", "s"}, NEW width \in Widths,
             Message(<<Conversion(letter, FALSE, width, 0, <<"q">>), Plain("b"), Closing>>, "log")
      PROVE  TextInv'
  <2>1. PICK q : q = <<"q">>
    OBVIOUS
  <2>2. q \in Seq(Char) /\ Len(q) = 1 /\ q[1] \notin {"%", NUL}
    BY <2>1, LetterQ
  <2>3. width \in 0 .. 9
    BY Printed
  <2>4. PICK a, b, last : a = Conversion(letter, FALSE, width, 0, q) /\ b = Plain("b") /\
          last = Closing
    OBVIOUS
  <2>5. a \in Item
    BY <2>2, <2>3, <2>4, SpellingIs
  <2>6. b \in Item /\ last \in Item
    BY <2>4, ClosingIs, PlainIs
  <2>7. PICK m : m = <<a, b, last>>
    OBVIOUS
  <2>8. m \in Seq(Item)
    BY <2>5, <2>6, <2>7, ItemsOf
  <2>9. Message(m, "log")
    BY <1>3, <2>1, <2>4, <2>7
  <2> QED
    BY <1>1, <2>8, <2>9, Logged, ProgramKeeps
<1>4. ASSUME Message(<<Number("%", 0), Closing>>, "log") PROVE TextInv'
  <2>1. PICK a, last : a = Number("%", 0) /\ last = Closing
    OBVIOUS
  <2>2. a \in Item /\ last \in Item
    BY <2>1, ClosingIs, PercentIs
  <2>3. PICK m : m = <<a, last>>
    OBVIOUS
  <2>4. m \in Seq(Item)
    BY <2>2, <2>3, ItemsOf
  <2>5. Message(m, "log")
    BY <1>4, <2>1, <2>3
  <2> QED
    BY <1>1, <2>4, <2>5, Logged, ProgramKeeps
<1> QED
  BY <1>2, <1>3, <1>4 DEF ALT_LOG_PRINTF

\* those of alt_printf() simple ones,
LEMMA AltPrintfKeeps == ASSUME TextInv, CallAltPrintf PROVE TextInv'
<1>1. frames = <<>> /\ Quiet
  BY DEF CallAltPrintf, MayPrint
<1>2. ASSUME NEW n \in Numbers, Message(<<Number("x", n), Number("x", 7)>>, "alt_printf")
      PROVE  TextInv'
  <2>1. PICK a, b, seven : a = Number("x", n) /\ b = Number("x", seven) /\ seven = 7
    OBVIOUS
  <2>2. "x" \in Numeric /\ n \in 0 .. LONG - 1 /\ seven \in 0 .. LONG - 1
    BY <2>1, Printed DEF Numeric
  <2>3. a \in Item /\ b \in Item
    BY <2>1, <2>2, NumberIs
  <2>4. Simple(a) /\ Simple(b)
    BY <2>1 DEF Simple, Number, Conversion
  <2>5. PICK m : m = <<a, b>>
    OBVIOUS
  <2>6. m \in Seq(Item)
    BY <2>3, <2>5, ItemsOf
  <2>7. \A k \in DOMAIN m : Simple(m[k])
    BY <2>4, <2>5
  <2>8. Message(m, "alt_printf")
    BY <1>2, <2>1, <2>5
  <2> QED
    BY <1>1, <2>6, <2>7, <2>8, Plainly, ProgramKeeps
<1>3. ASSUME NEW letter \in {"c", "s"},
             Message(<<Conversion(letter, FALSE, 0, 0, <<"q">>), Number("%", 0), Plain("b")>>, "alt_printf")
      PROVE  TextInv'
  <2>1. PICK q : q = <<"q">>
    OBVIOUS
  <2>2. q \in Seq(Char) /\ Len(q) = 1 /\ q[1] \notin {"%", NUL}
    BY <2>1, LetterQ
  <2>3. PICK zero \in 0 .. 9 : zero = 0
    OBVIOUS
  <2>4. PICK a, p, b : a = Conversion(letter, FALSE, zero, 0, q) /\ p = Number("%", 0) /\
          b = Plain("b")
    OBVIOUS
  <2>5. a \in Item
    BY <2>2, <2>3, <2>4, SpellingIs
  <2>6. p \in Item /\ b \in Item
    BY <2>4, PercentIs, PlainIs
  <2>7. Simple(a)
    BY <2>3, <2>4 DEF Simple, Conversion
  <2>8. Simple(p) /\ Simple(b)
    BY <2>4 DEF Simple, Number, Plain, Conversion
  <2>9. PICK m : m = <<a, p, b>>
    OBVIOUS
  <2>10. m \in Seq(Item)
    BY <2>5, <2>6, <2>9, ItemsOf
  <2>11. \A k \in DOMAIN m : Simple(m[k])
    BY <2>7, <2>8, <2>9
  <2>12. Message(m, "alt_printf")
    BY <1>3, <2>1, <2>3, <2>4, <2>9
  <2> QED
    BY <1>1, <2>10, <2>11, <2>12, Plainly, ProgramKeeps
<1> QED
  BY <1>2, <1>3 DEF CallAltPrintf

\* that of alt_log_write() the text it is given,
LEMMA LogWriteKeeps == ASSUME TextInv, alt_log_write PROVE TextInv'
<1>1. frames = <<>> /\ Quiet
  BY DEF alt_log_write, MayPrint
<1>2. PICK s \in Writes : /\ Len(s) >= 2 /\ ECHO_LEN >= 2
                          /\ Message(<<Conversion("s", FALSE, 0, 0, Echo(s))>>, "log")
  BY DEF alt_log_write
<1>3. PICK e : e = Echo(s)
  OBVIOUS
<1>4. e \in Seq(Char)
  BY <1>2, <1>3, EchoIs
<1>5. PICK zero \in 0 .. 9, letter \in {"c", "s"} : zero = 0 /\ letter = "s"
  OBVIOUS
<1>6. PICK a : a = Conversion(letter, FALSE, zero, 0, e)
  OBVIOUS
<1>7. a \in Item
  BY <1>4, <1>5, <1>6, SpellingIs
<1>8. PICK m : m = <<a>>
  OBVIOUS
<1>9. m \in Seq(Item)
  BY <1>7, <1>8
<1>10. Message(m, "log")
  BY <1>2, <1>3, <1>5, <1>6, <1>8
<1> QED
  BY <1>1, <1>9, <1>10, Logged, ProgramKeeps

\* and that of the start the fields of the register.
LEMMA ReportOfControl == ASSUME TextInv PROVE Report(CONTROL) \in Seq(Item)
<1>1. space \in 0 .. DEPTH
  BY DEF TextInv, TypeOK
<1>2. PICK sp \in 0 .. DEPTH : sp = space
  BY <1>1
<1>3. PICK c : c = sp * 65536 + 1024 + 512 + 2
  OBVIOUS
<1>4. c = CONTROL
  BY <1>2, <1>3 DEF CONTROL
<1> QED
  BY <1>3, <1>4, ReportIs

\* It is printed before all others.
LEMMA StartupKeeps == ASSUME TextInv, StartupInfo PROVE TextInv'
<1>1. frames = <<>> /\ Quiet /\ Message(Report(CONTROL), "log")
  BY DEF StartupInfo, MayPrint
<1>2. PICK m : m = Report(CONTROL)
  OBVIOUS
<1>3. m \in Seq(Item)
  BY <1>2, ReportOfControl
<1> QED
  BY <1>1, <1>2, <1>3, Logged, ProgramKeeps

\* The driver's handler: it logs the register, or fills the FIFO as it likes.
LEMMA UartKeeps == ASSUME TextInv, UartIsr PROVE TextInv'
<1>1. Handler /\ alt_system_clock_in_sec' = alt_system_clock_in_sec /\
        interrupts' = interrupts + 1
  BY DEF UartIsr, Handler, counters
<1>2. Settled'
  BY <1>1 DEF Settled, TextInv, TypeOK
<1>3. CASE Message(Report(CONTROL), "log") /\ UNCHANGED space
  <2>1. PICK m : m = Report(CONTROL)
    OBVIOUS
  <2>2. m \in Seq(Item)
    BY <2>1, ReportOfControl
  <2> QED
    BY <1>1, <1>2, <1>3, <2>1, <2>2, Logged, HandlerKeeps
<1>4. CASE space' \in 0 .. space /\ Unprinted
  BY <1>1, <1>2, <1>4, SilentKeeps
<1> QED
  BY <1>3, <1>4 DEF UartIsr

\* The driver's alarm logs the register,
LEMMA ReportKeeps == ASSUME TextInv, altera_avalon_jtag_uart_report_log PROVE TextInv'
<1>1. /\ Handler /\ alt_system_clock_in_sec' = alt_system_clock_in_sec
      /\ interrupts' = interrupts + 1
      /\ Message(Report(CONTROL), "log") /\ space' = space
  BY DEF altera_avalon_jtag_uart_report_log, Handler, counters
<1>2. Settled'
  BY <1>1 DEF Settled, TextInv, TypeOK
<1>3. PICK m : m = Report(CONTROL)
  OBVIOUS
<1>4. m \in Seq(Item)
  BY <1>3, ReportOfControl
<1> QED
  BY <1>1, <1>2, <1>3, <1>4, Logged, HandlerKeeps

\* and the system clock the seconds, every so many ticks.
LEMMA ClockKeeps == ASSUME TextInv, alt_log_system_clock PROVE TextInv'
<1>1. Handler /\ interrupts' = interrupts + 1 /\ space' = space
  BY DEF alt_log_system_clock, Handler
<1>2. alt_system_clock_in_sec \in 0 .. LONG - 1 /\ interrupts \in Nat /\ space \in 0 .. DEPTH
  BY DEF TextInv, TypeOK
<1>3. interrupts' \in Nat
  BY <1>1, <1>2
<1>4. CASE /\ alt_system_clock_in_sec' = (alt_system_clock_in_sec + 1) % LONG
           /\ Message(<<Number("u", alt_system_clock_in_sec)>>, "log")
  <2>1. PICK n \in 0 .. LONG - 1, l \in Nat \ {0} : n = alt_system_clock_in_sec /\ l = LONG
    BY <1>2, Longest
  <2>2. n + 1 \in Nat
    BY <2>1, Longest
  <2>3. (n + 1) % l \in 0 .. l - 1
    BY <2>1, <2>2, Parts
  <2>4. Settled'
    BY <1>3, <1>4, <2>1, <2>3 DEF Settled
  <2>5. PICK a : a = Number("u", n)
    OBVIOUS
  <2>6. "u" \in Numeric
    BY DEF Numeric
  <2>7. a \in Item
    BY <2>1, <2>5, <2>6, NumberIs
  <2>8. PICK m : m = <<a>>
    OBVIOUS
  <2>9. m \in Seq(Item)
    BY <2>7, <2>8
  <2>10. Message(m, "log")
    BY <1>4, <2>1, <2>5, <2>8
  <2> QED
    BY <1>1, <2>4, <2>9, <2>10, Logged, HandlerKeeps
<1>5. CASE alt_system_clock_in_sec' = alt_system_clock_in_sec /\ Unprinted
  <2>1. Settled'
    BY <1>2, <1>3, <1>5 DEF Settled
  <2>2. space' \in 0 .. space
    BY <1>1, <1>2, Longest
  <2> QED
    BY <1>1, <1>5, <2>1, <2>2, SilentKeeps
<1> QED
  BY <1>4, <1>5 DEF alt_log_system_clock

\* The host makes room.
LEMMA HostKeeps == ASSUME TextInv, HostTakes PROVE TextInv'
<1>1. Kept(ids, messages, frames, printed, space, intrusions) /\ Settled
  BY TextInvIs
<1>2. /\ printed' = printed /\ frames # <<>> /\ frames' = frames /\ ids' = ids
      /\ messages' = messages
      /\ intrusions' = intrusions /\ interrupts' = interrupts /\ space' = DEPTH
      /\ alt_system_clock_in_sec' = alt_system_clock_in_sec
  BY DEF HostTakes, counters, history
<1>3. PICK n, ms, fr, o, sp, i, rp :
        /\ n = ids /\ ms = messages /\ fr = frames /\ o = printed /\ sp = space
        /\ i = intrusions /\ rp = DEPTH
  OBVIOUS
<1>4. Kept(n, ms, fr, o, sp, i)
  BY <1>1, <1>3
<1>5. rp \in 0 .. DEPTH /\ rp > 0
  BY <1>3, Longest
<1>6. i \in Nat /\ Losses(o) + Debt(fr, sp) <= i /\ o \in Seq(Written)
  BY <1>4 DEF Kept
<1>7. Debt(fr, rp) <= Debt(fr, sp) /\ Debt(fr, rp) \in {0, 1} /\ Debt(fr, sp) \in {0, 1}
  <2>1. rp # 0
    BY <1>5
  <2> QED
    BY <2>1 DEF Debt
<1>8. Losses(o) \in Nat
  BY <1>6, LossesMore
<1>9. Losses(o) + Debt(fr, rp) <= i
  BY <1>6, <1>7, <1>8
<1>10. Kept(n, ms, fr, o, rp, i)
  BY <1>4, <1>5, <1>6, <1>9, RoomChanged
<1>11. Settled'
  BY <1>1, <1>2 DEF Settled
<1> QED
  BY <1>2, <1>3, <1>10, <1>11, TextInvNext

\* What the invariant says of the innermost message.
LEMMA InBounds ==
  ASSUME NEW n, NEW ms, NEW fr, NEW o, NEW sp, NEW i, Kept(n, ms, fr, o, sp, i), fr # <<>>,
         NEW f, f = Head(fr), NEW d, d = f.id, NEW m, m = ms[d], NEW said, said = Said(o, d)
  PROVE  /\ f \in Frame /\ f = fr[1] /\ Len(fr) \in {1, 2} /\ d \in 1 .. n /\ d \in Nat
         /\ m \in Seq(Item) /\ said \in Seq(Char) /\ Underway(f, m, said)
         /\ \E k \in 0 .. Len(m) : Telling(f, k, m, said)
<1>1. /\ fr \in Seq(Frame) /\ Len(fr) <= 2 /\ n \in Nat /\ ms \in Seq(Seq(Item))
      /\ Len(ms) = n
      /\ \A k \in DOMAIN fr : fr[k].id \in 1 .. n /\
          Underway(fr[k], ms[fr[k].id], Said(o, fr[k].id))
      /\ o \in Seq(Written)
  BY DEF Kept
<1>2. PICK s \in Nat : s = Len(fr) /\ DOMAIN fr = 1 .. s
  BY <1>1, LenProperties
<1>3. s # 0
  BY <1>1, <1>2, EmptySeq
<1>4. s \in {1, 2} /\ 1 \in DOMAIN fr /\ 1 \in 1 .. Len(fr)
  BY <1>1, <1>2, <1>3
<1>5. f = fr[1]
  BY <1>1
<1>6. f \in Frame
  BY <1>1, <1>4, <1>5, ElementOfSeq
<1>7. d \in 1 .. n /\ Underway(f, m, said)
  BY <1>1, <1>4, <1>5
<1>8. m \in Seq(Item)
  BY <1>1, <1>7, ElementOfSeq
<1>9. said \in Seq(Char)
  BY <1>1, SaidIs
<1>10. PICK k \in 0 .. Len(m) : Reached(f, k, m, said)
  BY <1>7 DEF Underway
<1>11. Telling(f, k, m, said)
  BY <1>6, <1>8, <1>9, <1>10 DEF Telling
<1> QED
  BY <1>1, <1>2, <1>4, <1>5, <1>6, <1>7, <1>8, <1>9, <1>10, <1>11, SMTT(30)

\* The debt of w, which is fr with g as the innermost message.
Owing(fr, g, w, sp, rp) ==
  /\ Debt(w, rp) \in {0, 1} /\ Debt(fr, sp) \in {0, 1}
  /\ Len(fr) = 2 => Debt(w, rp) = Debt(fr, sp)
  /\ Len(fr) = 1 => /\ Debt(w, rp) = (IF g.at = "write" /\ rp = 0 THEN 1 ELSE 0)
                    /\ Debt(fr, sp) = (IF fr[1].at = "write" /\ sp = 0 THEN 1 ELSE 0)

\* What a change of the innermost message does to the debt.
LEMMA DebtOn ==
  ASSUME NEW fr \in Seq(Frame), fr # <<>>, Len(fr) \in {1, 2}, NEW g \in Frame, NEW w,
         w = <<g>> \o Tail(fr),
         NEW sp \in 0 .. DEPTH, NEW rp \in 0 .. DEPTH
  PROVE  Owing(fr, g, w, sp, rp)
<1>1. /\ w # <<>> /\ Len(w) = Len(fr) /\ w[1] = g
      /\ \A k \in 1 .. Len(fr) : k # 1 => w[k] = fr[k]
  BY TopChanged
<1>2. PICK s \in {1, 2} : s = Len(fr)
  OBVIOUS
<1>3. Len(fr) = 2 => w[2] = fr[2]
  <2> SUFFICES ASSUME s = 2 PROVE w[2] = fr[2]
    BY <1>2
  <2>1. 2 \in 1 .. s
    OBVIOUS
  <2> QED
    BY <1>2, <1>1, <2>1
<1>4. Debt(w, rp) \in {0, 1} /\ Debt(fr, sp) \in {0, 1}
  BY DEF Debt
<1>5. Len(fr) = 2 => Debt(w, rp) = Debt(fr, sp)
  BY <1>1, <1>3 DEF Debt
<1>6. Len(fr) = 1 => /\ Debt(w, rp) = (IF g.at = "write" /\ rp = 0 THEN 1 ELSE 0)
                     /\ Debt(fr, sp) = (IF fr[1].at = "write" /\ sp = 0 THEN 1 ELSE 0)
  <2> SUFFICES ASSUME Len(fr) = 1
               PROVE  /\ Debt(w, rp) = (IF g.at = "write" /\ rp = 0 THEN 1 ELSE 0)
                      /\ Debt(fr, sp) = (IF fr[1].at = "write" /\ sp = 0 THEN 1 ELSE 0)
    OBVIOUS
  <2>1. w[Len(w)] = g /\ Len(w) # 2
    <3>1. PICK l \in {1, 2} : l = Len(w) /\ l = Len(fr)
      BY <1>2, <1>1
    <3>2. l = 1
      BY <3>1
    <3>3. w[l] = g /\ l # 2
      BY <1>1, <3>2
    <3> QED
      BY <3>1, <3>3
  <2>2. fr[Len(fr)] = fr[1] /\ Len(fr) # 2
    OBVIOUS
  <2>3. Debt(w, rp) = (IF g.at = "write" /\ rp = 0 THEN 1 ELSE 0)
    BY <1>1, <2>1 DEF Debt
  <2>4. Debt(fr, sp) = (IF fr[1].at = "write" /\ sp = 0 THEN 1 ELSE 0)
    BY <2>2 DEF Debt
  <2> QED
    BY <2>3, <2>4
<1> QED
  BY <1>4, <1>5, <1>6 DEF Owing

\* The innermost message goes on, and nothing comes out.
LEMMA TopSilent ==
  ASSUME NEW n, NEW ms, NEW fr, NEW o, NEW sp, NEW i, Kept(n, ms, fr, o, sp, i), fr # <<>>,
         NEW f, f = Head(fr), NEW g \in Frame, g.id = f.id, NEW w, w = <<g>> \o Tail(fr),
         Underway(g, ms[f.id], Said(o, f.id)), g.at = "write" => sp > 0
  PROVE  Kept(n, ms, w, o, sp, i)
<1>1. PICK d, m, said : d = f.id /\ m = ms[d] /\ said = Said(o, d)
  OBVIOUS
<1>2. Len(fr) \in {1, 2} /\ f = fr[1]
  BY <1>1, InBounds
<1>3. /\ fr \in Seq(Frame) /\ o \in Seq(Written) /\ \A j \in DOMAIN o : o[j].id \in 1 .. n
      /\ sp \in 0 .. DEPTH /\ i \in Nat /\ Losses(o) + Debt(fr, sp) <= i
  BY DEF Kept
<1>4. /\ Debt(w, sp) \in {0, 1} /\ Debt(fr, sp) \in {0, 1}
      /\ Len(fr) = 2 => Debt(w, sp) = Debt(fr, sp)
      /\ Len(fr) = 1 => Debt(w, sp) = (IF g.at = "write" /\ sp = 0 THEN 1 ELSE 0)
  <2>1. Owing(fr, g, w, sp, sp)
    BY <1>2, <1>3, DebtOn
  <2> QED
    BY <2>1 DEF Owing
<1>5. Debt(w, sp) <= Debt(fr, sp)
  <2>1. CASE Len(fr) = 2
    BY <1>4, <2>1
  <2>2. CASE Len(fr) = 1
    <3>1. ~(g.at = "write" /\ sp = 0)
      BY <1>3, Longest
    <3> QED
      BY <1>4, <2>2, <3>1
  <2> QED
    BY <1>2, <2>1, <2>2
<1>6. Losses(o) \in Nat
  BY <1>3, LossesMore
<1>7. Losses(o) + Debt(w, sp) <= i
  <2>1. PICK a \in Nat, b \in {0, 1}, c \in {0, 1} : a = Losses(o) /\ b = Debt(w, sp) /\
          c = Debt(fr, sp)
    BY <1>4, <1>6
  <2>2. b <= c /\ a + c <= i
    BY <1>3, <1>5, <2>1
  <2>3. a + b <= i
    BY <1>3, <2>1, <2>2
  <2> QED
    BY <2>1, <2>3
<1>8. \A id \in 1 .. n : id # f.id => Said(o, id) = Said(o, id)
  OBVIOUS
<1>9. PICK q \in Seq(Written), rp \in 0 .. DEPTH : q = o /\ rp = sp
  BY <1>3
<1>10. Losses(q) + Debt(w, rp) <= i
  BY <1>7, <1>9
<1>11. /\ \A j \in DOMAIN q : q[j].id \in 1 .. n
       /\ \A id \in 1 .. n : id # f.id => Said(q, id) = Said(o, id)
       /\ Underway(g, ms[f.id], Said(q, f.id))
       /\ Len(fr) = 2 /\ g.at = "write" => rp > 0
  BY <1>3, <1>9
<1>12. Kept(n, ms, w, q, rp, i)
  BY <1>10, <1>11, TopGoesOn
<1> QED
  BY <1>9, <1>12

\* A character of the format is read.
LEMMA ReadKeeps == ASSUME TextInv, alt_log_private_printf PROVE TextInv'
<1>1. Kept(ids, messages, frames, printed, space, intrusions) /\ Settled
  BY TextInvIs
<1>2. /\ printed' = printed /\ frames # <<>> /\ ids' = ids /\ messages' = messages
      /\ space' = space
      /\ intrusions' = intrusions /\ interrupts' = interrupts
      /\ alt_system_clock_in_sec' = alt_system_clock_in_sec
      /\ Top.at = "format" /\ Top.by = "log" /\ Top.pending = <<>>
      /\ Top.fmt = <<>> => frames' = Tail(frames)
      /\ Top.fmt # <<>> => frames' = <<Interpreted(Top)>> \o Tail(frames)
  BY DEF alt_log_private_printf, counters, history, At, Put
<1>3. PICK n, ms, fr, o, sp, i, f :
        /\ n = ids /\ ms = messages /\ fr = frames /\ o = printed /\ sp = space
        /\ i = intrusions /\ f = Top
  OBVIOUS
<1>4. Kept(n, ms, fr, o, sp, i) /\ fr # <<>> /\ f = Head(fr)
  BY <1>1, <1>2, <1>3 DEF Top
<1>5. PICK d, m, said : d = f.id /\ m = ms[d] /\ said = Said(o, d)
  OBVIOUS
<1>6. /\ f \in Frame /\ d \in 1 .. n /\ Underway(f, m, said)
      /\ \E k \in 0 .. Len(m) : Telling(f, k, m, said)
  BY <1>4, <1>5, InBounds
<1>7. f.at = "format" /\ f.by = "log" /\ f.pending = <<>>
  BY <1>2, <1>3
<1>8. Kept(n, ms, frames', o, sp, i)
  <2>1. CASE f.fmt = <<>>
    <3>1. Kept(n, ms, Tail(fr), o, sp, i)
      BY <1>4, <1>7, <2>1, TopOver
    <3> QED
      BY <1>2, <1>3, <2>1, <3>1
  <2>2. CASE f.fmt # <<>>
    <3>1. PICK k \in 0 .. Len(m) : Telling(f, k, m, said)
      BY <1>6
    <3>2. PICK g : g = Interpreted(f)
      OBVIOUS
    <3>3. /\ g \in Frame /\ g.by = f.by /\ g.id = f.id /\ g.at = f.at
          /\ \E j \in 0 .. Len(m) : Reached(g, j, m, said)
      BY <1>7, <2>2, <3>1, <3>2, ReadOn
    <3>4. g.at # "write" /\ g.by # "alt_printf"
      BY <1>7, <3>3
    <3>5. Underway(g, m, said)
      BY <3>3, <3>4 DEF Underway
    <3>6. PICK w : w = <<g>> \o Tail(fr)
      OBVIOUS
    <3>7. Kept(n, ms, w, o, sp, i)
      BY <1>4, <1>5, <3>3, <3>4, <3>5, <3>6, TopSilent
    <3> QED
      BY <1>2, <1>3, <2>2, <3>2, <3>6, <3>7
  <2> QED
    BY <2>1, <2>2
<1>9. Settled'
  BY <1>1, <1>2 DEF Settled
<1> QED
  BY <1>2, <1>3, <1>8, <1>9, TextInvNext

\* There is room for the next character.
LEMMA PollKeeps == ASSUME TextInv, PollFifo PROVE TextInv'
<1>1. Kept(ids, messages, frames, printed, space, intrusions) /\ Settled
  BY TextInvIs
<1>2. /\ printed' = printed /\ frames # <<>> /\ ids' = ids /\ messages' = messages
      /\ space' = space
      /\ intrusions' = intrusions /\ interrupts' = interrupts
      /\ alt_system_clock_in_sec' = alt_system_clock_in_sec
      /\ Top.by = "log" /\ Top.pending # <<>> /\ space > 0
      /\ frames' = <<[Top EXCEPT !.at = "write"]>> \o Tail(frames)
  BY DEF PollFifo, counters, history, At, Put
<1>3. PICK n, ms, fr, o, sp, i, f :
        /\ n = ids /\ ms = messages /\ fr = frames /\ o = printed /\ sp = space
        /\ i = intrusions /\ f = Top
  OBVIOUS
<1>4. Kept(n, ms, fr, o, sp, i) /\ fr # <<>> /\ f = Head(fr)
  BY <1>1, <1>2, <1>3 DEF Top
<1>5. PICK d, m, said : d = f.id /\ m = ms[d] /\ said = Said(o, d)
  OBVIOUS
<1>6. f \in Frame /\ d \in 1 .. n /\ Underway(f, m, said)
  BY <1>4, <1>5, InBounds
<1>7. f.by = "log" /\ f.pending # <<>> /\ sp > 0
  BY <1>2, <1>3
<1>8. PICK g : g = [f EXCEPT !.at = "write"]
  OBVIOUS
<1>9. /\ g \in Frame /\ g.by = f.by /\ g.id = f.id /\ g.at = "write" /\ g.state = f.state
      /\ g.fmt = f.fmt
      /\ g.args = f.args /\ g.pending = f.pending /\ g.zero = f.zero /\ g.before = f.before
      /\ g.after = f.after
  BY <1>6, <1>8 DEF Frame
<1>10. PICK k \in 0 .. Len(m) : Reached(f, k, m, said)
  BY <1>6 DEF Underway
<1>11. Reached(g, k, m, said)
  <2>1. f.state = "chars"
    BY <1>7, <1>10 DEF Reached
  <2> QED
    BY <1>9, <1>10, <2>1 DEF Reached
<1>12. Underway(g, m, said)
  BY <1>7, <1>9, <1>11 DEF Underway
<1>13. PICK w : w = <<g>> \o Tail(fr)
  OBVIOUS
<1>14. Kept(n, ms, w, o, sp, i)
  BY <1>4, <1>5, <1>7, <1>9, <1>12, <1>13, TopSilent
<1>15. Settled'
  BY <1>1, <1>2 DEF Settled
<1> QED
  BY <1>2, <1>3, <1>8, <1>13, <1>14, <1>15, TextInvNext

\* What is due is a character.
LEMMA DueIs ==
  ASSUME NEW n, NEW ms, NEW fr, NEW o, NEW sp, NEW i, Kept(n, ms, fr, o, sp, i), fr # <<>>,
         NEW f, f = Head(fr), f.at = "write"
  PROVE  Head(f.pending) \in Char /\ f.id \in Nat
<1>1. PICK d, m, said : d = f.id /\ m = ms[d] /\ said = Said(o, d)
  OBVIOUS
<1>2. f \in Frame /\ Underway(f, m, said)
  BY <1>1, InBounds
<1>3. PICK p \in Seq(Char) : p = f.pending
  BY <1>2 DEF Frame
<1>4. p # <<>>
  BY <1>2, <1>3 DEF Underway
<1>5. Head(p) \in Char
  BY <1>4, HeadTailProperties
<1> QED
  BY <1>2, <1>3, <1>5 DEF Frame

\* A character is written, or dropped.
LEMMA CharWritten ==
  ASSUME NEW n, NEW ms, NEW fr, NEW o, NEW sp, NEW i, Kept(n, ms, fr, o, sp, i), fr # <<>>,
         NEW f, f = Head(fr), f.at = "write",
         NEW g, g = PutBy(f, "format"),
         NEW w, w = <<g>> \o Tail(fr),
         NEW x \in Written, x.id = f.id, x.char = Head(f.pending), x.lost <=> sp = 0,
         NEW q, q = Append(o, x),
         NEW rp, rp = (IF sp = 0 THEN 0 ELSE sp - 1)
  PROVE  Kept(n, ms, w, q, rp, i)
<1>1. PICK d, m, said : d = f.id /\ m = ms[d] /\ said = Said(o, d)
  OBVIOUS
<1>2. /\ f \in Frame /\ f = fr[1] /\ Len(fr) \in {1, 2} /\ d \in 1 .. n /\ d \in Nat
      /\ m \in Seq(Item) /\ said \in Seq(Char) /\ Underway(f, m, said)
      /\ \E k \in 0 .. Len(m) : Telling(f, k, m, said)
  BY <1>1, InBounds
<1>3. PICK k \in 0 .. Len(m) : Telling(f, k, m, said)
  BY <1>2
<1>4. f.pending # <<>> /\ f.by # "alt_printf"
  BY <1>2 DEF Underway
<1>5. PICK at \in {"format", "write"} : at = "format"
  OBVIOUS
<1>6. g = PutBy(f, at)
  BY <1>5
<1>7. /\ g \in Frame /\ g.by = f.by /\ g.id = f.id /\ g.at = at
      /\ Head(f.pending) \in Char /\ Reached(g, k, m, Append(said, Head(f.pending)))
  BY <1>3, <1>4, <1>5, <1>6, PutOn
<1>8. g.at # "write" /\ g.by # "alt_printf"
  BY <1>4, <1>5, <1>7
<1>9. PICK c \in Char : c = Head(f.pending)
  BY <1>7
<1>10. Underway(g, m, Append(said, c))
  BY <1>7, <1>8, <1>9 DEF Underway
<1>11. /\ fr \in Seq(Frame) /\ o \in Seq(Written) /\ \A j \in DOMAIN o : o[j].id \in 1 .. n
       /\ sp \in 0 .. DEPTH /\ i \in Nat /\ Losses(o) + Debt(fr, sp) <= i
       /\ Len(fr) = 2 /\ fr[1].at = "write" => sp > 0
  BY DEF Kept
<1>12. x \in Written /\ x.id = d /\ x.char = c
  BY <1>1, <1>9
<1>13. \A id : Said(q, id) = IF d = id THEN Append(Said(o, id), c) ELSE Said(o, id)
  <2> SUFFICES ASSUME NEW id PROVE Said(q, id) = IF d =
                                     id THEN Append(Said(o, id), c) ELSE Said(o, id)
    OBVIOUS
  <2>1. o \in Seq(Written) /\ x \in Written
    BY <1>11, <1>12
  <2>2. Said(Append(o, x), id) = IF x.id =
          id THEN Append(Said(o, id), x.char) ELSE Said(o, id)
    BY <2>1, SaidMore
  <2>3. x.id = d /\ x.char = c
    BY <1>12
  <2> QED
    BY <2>2, <2>3, Zenon
<1>14. Said(q, d) = Append(said, c) /\ \A id \in 1 .. n : id # d => Said(q, id) = Said(o, id)
  BY <1>1, <1>13
<1>15. PICK u \in Seq(Written) : u = <<x>> /\ Len(u) = 1 /\ u[1] = x
  <2>1. <<x>> \in Seq(Written) /\ Len(<<x>>) = 1 /\ <<x>>[1] = x
    BY <1>12
  <2> QED
    BY <2>1
<1>16. q = o \o u /\ q \in Seq(Written)
  BY <1>11, <1>12, <1>15, AppendIsConcat, AppendProperties
<1>17. \A j \in DOMAIN q : q[j].id \in 1 .. n
  <2>1. PICK l \in Nat : l = Len(o) /\ DOMAIN o = 1 .. l
    BY <1>11, LenProperties
  <2>2. Len(q) = Len(o) + 1 /\ \A j \in 1 .. Len(o) + 1 : q[j] =
          IF j <= Len(o) THEN o[j] ELSE x
    BY <1>11, <1>12, AppendProperties
  <2>3. DOMAIN q = 1 .. l + 1 /\ \A j \in 1 .. l + 1 : q[j] = IF j <= l THEN o[j] ELSE x
    BY <1>16, <2>1, <2>2, LenProperties
  <2> SUFFICES ASSUME NEW j \in 1 .. l + 1 PROVE q[j].id \in 1 .. n
    BY <2>3
  <2>4. CASE j <= l
    <3>1. q[j] = o[j] /\ j \in DOMAIN o
      BY <2>1, <2>3, <2>4
    <3> QED
      BY <1>11, <3>1
  <2>5. CASE ~(j <= l)
    <3>1. q[j] = x
      BY <2>3, <2>5
    <3>2. x.id = d
      BY <1>12
    <3> QED
      BY <1>2, <3>1, <3>2
  <2> QED
    BY <2>4, <2>5
<1>18. PICK a \in Nat, b \in Nat : a = Losses(o) /\ b = Losses(q) /\
         b = a + (IF sp = 0 THEN 1 ELSE 0)
  <2>1. Losses(o) \in Nat /\ Losses(o \o u) = Losses(o) + (IF u[1].lost THEN 1 ELSE 0)
    BY <1>11, <1>15, LossesMore
  <2>2. u[1].lost <=> sp = 0
    BY <1>15
  <2>3. PICK e \in {0, 1} : e = (IF sp = 0 THEN 1 ELSE 0)
    OBVIOUS
  <2>4. Losses(q) = Losses(o) + e
    BY <1>16, <2>1, <2>2, <2>3
  <2> QED
    <3>1. PICK a \in Nat : a = Losses(o)
      BY <2>1
    <3>2. PICK b : b = Losses(q)
      OBVIOUS
    <3>3. b = a + e /\ b \in Nat
      BY <2>3, <2>4, <3>1, <3>2
    <3> QED
      BY <2>3, <3>1, <3>2, <3>3
<1>19. rp \in 0 .. DEPTH
  <2>1. DEPTH \in Nat
    BY Longest
  <2>2. CASE sp = 0
    BY <2>1, <2>2
  <2>3. CASE sp # 0
    BY <1>11, <2>1, <2>3
  <2> QED
    BY <2>2, <2>3
<1>20. Owing(fr, g, w, sp, rp)
  BY <1>2, <1>7, <1>11, <1>19, DebtOn
<1>21. PICK y \in {0, 1}, z \in {0, 1} : y = Debt(fr, sp) /\ z = Debt(w, rp)
  BY <1>20 DEF Owing
<1>22. b + z <= i
  <2>1. a + y <= i /\ i \in Nat
    BY <1>11, <1>18, <1>21
  <2>2. CASE Len(fr) = 2
    <3>1. sp # 0
      BY <1>2, <1>11, <2>2
    <3>2. z = y
      BY <1>20, <1>21, <2>2 DEF Owing
    <3> QED
      BY <1>18, <2>1, <3>1, <3>2
  <2>3. CASE Len(fr) = 1
    <3>1. z = 0
      BY <1>8, <1>20, <1>21, <2>3 DEF Owing
    <3>2. y = (IF sp = 0 THEN 1 ELSE 0)
      BY <1>2, <1>20, <1>21, <2>3 DEF Owing
    <3> QED
      BY <1>18, <2>1, <3>1, <3>2
  <2> QED
    BY <1>2, <2>2, <2>3
<1>23. Losses(q) + Debt(w, rp) <= i
  BY <1>18, <1>21, <1>22
<1>24. /\ g.id = f.id /\ Underway(g, ms[f.id], Said(q, f.id))
       /\ \A id \in 1 .. n : id # f.id => Said(q, id) = Said(o, id)
       /\ Len(fr) = 2 /\ g.at = "write" => rp > 0
  BY <1>1, <1>7, <1>8, <1>10, <1>14
<1>25. PICK Q \in Seq(Written), R \in 0 .. DEPTH : Q = q /\ R = rp
  BY <1>16, <1>19
<1>26. /\ \A j \in DOMAIN Q : Q[j].id \in 1 .. n
       /\ \A id \in 1 .. n : id # f.id => Said(Q, id) = Said(o, id)
       /\ Underway(g, ms[f.id], Said(Q, f.id))
       /\ Len(fr) = 2 /\ g.at = "write" => R > 0
       /\ Losses(Q) + Debt(w, R) <= i
  BY <1>17, <1>23, <1>24, <1>25
<1>27. g \in Frame /\ g.id = f.id
  BY <1>7
<1>28. Kept(n, ms, w, Q, R, i)
  BY ONLY Kept(n, ms, fr, o, sp, i), fr # <<>>, f = Head(fr), w = <<g>> \o Tail(fr),
          Q \in Seq(Written), R \in 0 .. DEPTH, <1>26, <1>27, TopGoesOn
<1> QED
  BY <1>25, <1>28

\* That is what is written to the FIFO.
LEMMA WriteKeeps == ASSUME TextInv, WriteFifo PROVE TextInv'
<1>1. Kept(ids, messages, frames, printed, space, intrusions) /\ Settled
  BY TextInvIs
<1>2. /\ frames # <<>> /\ ids' = ids /\ messages' = messages
      /\ intrusions' = intrusions /\ interrupts' = interrupts
      /\ alt_system_clock_in_sec' = alt_system_clock_in_sec /\ Top.at = "write"
      /\ frames' = <<[Top EXCEPT !.at = "format", !.pending = Tail(@)]>> \o Tail(frames)
      /\ printed' =
          Append(printed, [id |-> Top.id, char |-> Head(Top.pending), lost |-> space = 0])
      /\ space' = IF space = 0 THEN 0 ELSE space - 1
  BY DEF WriteFifo, counters, history, At, Put
<1>3. PICK n, ms, fr, o, sp, i, f, rp :
        /\ n = ids /\ ms = messages /\ fr = frames /\ o = printed /\ sp = space
        /\ i = intrusions /\ f = Top
        /\ rp = space'
  OBVIOUS
<1>4. /\ Kept(n, ms, fr, o, sp, i) /\ fr # <<>> /\ f = Head(fr) /\ f.at = "write"
      /\ rp = (IF sp = 0 THEN 0 ELSE sp - 1)
  BY <1>1, <1>2, <1>3 DEF Top
<1>5. Head(f.pending) \in Char /\ f.id \in Nat
  BY <1>4, DueIs
<1>6. PICK x : x = [id |-> f.id, char |-> Head(f.pending), lost |-> sp = 0]
  BY Zenon
<1>7. x \in Written
  BY <1>5, <1>6 DEF Written
<1>8. x.id = f.id /\ x.char = Head(f.pending)
  BY <1>6
<1>9. x.lost <=> sp = 0
  BY <1>6
<1>10. PICK g, w, q : g = PutBy(f, "format") /\ w = <<g>> \o Tail(fr) /\ q = Append(o, x)
  OBVIOUS
<1>11. Kept(n, ms, w, q, rp, i)
  BY <1>4, <1>7, <1>8, <1>9, <1>10, CharWritten
<1>12. frames' = w /\ printed' = q
  BY <1>2, <1>3, <1>6, <1>10, Zenon DEF PutBy
<1>13. Settled'
  BY <1>1, <1>2 DEF Settled
<1> QED
  BY <1>2, <1>3, <1>11, <1>12, <1>13, TextInvNext

\* What q has more than o: the characters v of the message d.
Adds(o, d, v, q) ==
  /\ q \in Seq(Written) /\ Losses(q) = Losses(o)
  /\ \A j \in DOMAIN q : q[j].id = d \/ (j \in DOMAIN o /\ q[j] = o[j])
  /\ \A id : Said(q, id) = IF id = d THEN Said(o, id) \o v ELSE Said(o, id)

\* That is what they are.
LEMMA AddsIs ==
  ASSUME NEW o \in Seq(Written), NEW v \in Seq(Char), NEW d \in Nat, NEW u,
         u = Uttered(d, v), NEW q, q = o \o u
  PROVE  Adds(o, d, v, q)
<1>1. \A id : /\ o \o Uttered(d, v) \in Seq(Written)
              /\ Len(Uttered(d, v)) = Len(v) /\ Uttered(d, v) \in Seq(Written)
              /\ \A i \in 1 .. Len(v) : Uttered(d, v)[i].id = d /\ ~Uttered(d, v)[i].lost
              /\ Said(o \o Uttered(d, v), id) = IF id =
                  d THEN Said(o, id) \o v ELSE Said(o, id)
  BY SaidWords, SMTT(30)
<1>2. /\ q \in Seq(Written) /\ Len(u) = Len(v) /\ u \in Seq(Written)
      /\ \A i \in 1 .. Len(v) : u[i].id = d /\ ~u[i].lost
  BY <1>1
<1>3. \A id : Said(q, id) = IF id = d THEN Said(o, id) \o v ELSE Said(o, id)
  BY <1>1
<1>4. PICK l \in Nat, c \in Nat : l = Len(o) /\ DOMAIN o = 1 .. l /\ c = Len(u) /\ c = Len(v)
  BY <1>2, LenProperties
<1>5. \A j \in DOMAIN q : q[j].id = d \/ (j \in DOMAIN o /\ q[j] = o[j])
  <2>1. u \in Seq(Written)
    BY <1>2
  <2>2. Len(o \o u) = Len(o) + Len(u)
        /\ \A j \in 1 .. Len(o) + Len(u) : (o \o u)[j] =
            IF j <= Len(o) THEN o[j] ELSE u[j - Len(o)]
    BY ONLY o \in Seq(Written), <2>1, ConcatProperties
  <2>3. Len(q) = l + c /\ \A j \in 1 .. l + c : q[j] = IF j <= l THEN o[j] ELSE u[j - l]
    BY <1>4, <2>2
  <2>4. DOMAIN q = 1 .. l + c
    BY <1>2, <2>3, LenProperties
  <2> SUFFICES ASSUME NEW j \in 1 .. l + c PROVE q[j].id =
                                                   d \/ (j \in DOMAIN o /\ q[j] = o[j])
    BY <2>4
  <2>5. CASE j <= l
    BY <1>4, <2>3, <2>5
  <2>6. CASE ~(j <= l)
    <3>1. l \in Nat /\ c \in Nat
      BY <1>4
    <3>2. j - l \in 1 .. c
      BY <2>6, <3>1
    <3>3. PICK e \in 1 .. c : e = j - l
      BY <3>2
    <3>4. q[j] = u[e]
      BY <2>3, <2>6, <3>3
    <3>5. u[e].id = d
      BY <1>2, <1>4, <3>3
    <3> QED
      BY <3>4, <3>5
  <2> QED
    BY <2>5, <2>6
<1>6. Losses(q) = Losses(o)
  <2>1. \A j \in 1 .. Len(u) : ~u[j].lost
    BY <1>2
  <2> QED
    BY <1>2, <2>1, LossesMore
<1> QED
  BY <1>2, <1>3, <1>5, <1>6 DEF Adds

\* alt_printf() says some of a message.
LEMMA WordsSaid ==
  ASSUME NEW n, NEW ms, NEW fr, NEW o, NEW sp, NEW i, Kept(n, ms, fr, o, sp, i), fr # <<>>,
         NEW f, f = Head(fr), f.by = "alt_printf", f.fmt # <<>>,
         NEW g, g = Spoken(f),
         NEW w, w = <<g>> \o Tail(fr),
         NEW q, q = o \o Uttered(f.id, Words(f))
  PROVE  Kept(n, ms, w, q, sp, i)
<1>1. PICK d, m, said : d = f.id /\ m = ms[d] /\ said = Said(o, d)
  OBVIOUS
<1>2. /\ f \in Frame /\ f = fr[1] /\ Len(fr) \in {1, 2} /\ d \in 1 .. n /\ d \in Nat
      /\ m \in Seq(Item) /\ said \in Seq(Char) /\ Underway(f, m, said)
  BY <1>1, InBounds
<1>3. PICK k \in 0 .. Len(m) : Telling(f, k, m, said)
  BY <1>1, InBounds
<1>4. f.at = "format" /\ f.state = "chars" /\ f.pending = <<>> /\
        \A j \in DOMAIN m : Simple(m[j])
  BY <1>2 DEF Underway
<1>5. PICK v : v = Words(f)
  OBVIOUS
<1>6. /\ v \in Seq(Char) /\ g \in Frame /\ g.by = f.by /\ g.id = f.id /\ g.at = f.at
      /\ g.state = "chars" /\ g.pending = <<>>
      /\ k + 1 \in 0 .. Len(m) /\ Reached(g, k + 1, m, said \o v)
  BY <1>3, <1>4, <1>5, SpokenOn
<1>7. PICK h \in 0 .. Len(m) : h = k + 1
  BY <1>6
<1>8. Underway(g, m, said \o v)
  <2>1. Reached(g, h, m, said \o v)
    BY <1>6, <1>7
  <2>2. g.at = "format"
    BY <1>4, <1>6
  <2> QED
    BY <1>4, <1>6, <2>1, <2>2 DEF Underway
<1>9. /\ fr \in Seq(Frame) /\ o \in Seq(Written) /\ \A j \in DOMAIN o : o[j].id \in 1 .. n
      /\ sp \in 0 .. DEPTH /\ i \in Nat /\ Losses(o) + Debt(fr, sp) <= i
  BY DEF Kept
<1>10. PICK u : u = Uttered(d, v)
  OBVIOUS
<1>11. q = o \o u
  BY <1>1, <1>5, <1>10
<1>12. Adds(o, d, v, q)
  BY <1>2, <1>6, <1>9, <1>10, <1>11, AddsIs
<1>13. Said(q, d) = said \o v /\ \A id \in 1 .. n : id # d => Said(q, id) = Said(o, id)
  BY <1>1, <1>12 DEF Adds
<1>14. \A j \in DOMAIN q : q[j].id \in 1 .. n
  BY <1>2, <1>9, <1>12 DEF Adds
<1>15. Losses(q) = Losses(o) /\ q \in Seq(Written)
  BY <1>12 DEF Adds
<1>16. Losses(q) + Debt(w, sp) <= i
  <2>1. Owing(fr, g, w, sp, sp)
    BY <1>2, <1>6, <1>9, DebtOn
  <2>2. Losses(o) \in Nat
    BY <1>9, <1>15, LossesMore
  <2>3. PICK a \in Nat, y \in {0, 1}, z \in {0, 1} : a = Losses(o) /\ y = Debt(fr, sp) /\
          z = Debt(w, sp)
    BY <2>1, <2>2 DEF Owing
  <2>4. z <= y
    <3>1. CASE Len(fr) = 2
      BY <2>1, <2>3, <3>1 DEF Owing
    <3>2. CASE Len(fr) = 1
      <4>1. g.at # "write"
        BY <1>4, <1>6
      <4> QED
        BY <2>1, <2>3, <3>2, <4>1 DEF Owing
    <3> QED
      BY <1>2, <3>1, <3>2
  <2>5. a + y <= i
    BY <1>9, <2>3
  <2>6. a + z <= i
    BY <1>9, <2>3, <2>4, <2>5, SMTT(30)
  <2> QED
    BY <1>15, <2>3, <2>6
<1>17. PICK Q \in Seq(Written), R \in 0 .. DEPTH : Q = q /\ R = sp
  BY <1>9, <1>15
<1>18. /\ \A j \in DOMAIN Q : Q[j].id \in 1 .. n
       /\ \A id \in 1 .. n : id # f.id => Said(Q, id) = Said(o, id)
       /\ Underway(g, ms[f.id], Said(Q, f.id))
       /\ Losses(Q) + Debt(w, R) <= i
  BY <1>1, <1>8, <1>13, <1>14, <1>16, <1>17
<1>19. /\ g \in Frame /\ g.id = f.id
       /\ Len(fr) = 2 /\ g.at = "write" => R > 0
  BY <1>4, <1>6
<1>20. Kept(n, ms, w, Q, R, i)
  BY ONLY Kept(n, ms, fr, o, sp, i), fr # <<>>, f = Head(fr), w = <<g>> \o Tail(fr),
          Q \in Seq(Written), R \in 0 .. DEPTH, <1>18, <1>19, TopGoesOn
<1> QED
  BY <1>17, <1>20

\* It says some of its message, or its message is over.
LEMMA SpeakKeeps == ASSUME TextInv, alt_printf PROVE TextInv'
<1>1. Kept(ids, messages, frames, printed, space, intrusions) /\ Settled
  BY TextInvIs
<1>2. /\ frames # <<>> /\ ids' = ids /\ messages' = messages /\ space' = space
      /\ intrusions' = intrusions /\ interrupts' = interrupts
      /\ alt_system_clock_in_sec' = alt_system_clock_in_sec
      /\ Top.at = "format" /\ Top.by = "alt_printf"
      /\ Top.fmt = <<>> => frames' = Tail(frames) /\ printed' = printed
      /\ Top.fmt # <<>> => /\ frames' = <<Spoken(Top)>> \o Tail(frames)
                           /\ printed' = printed \o Uttered(Top.id, Words(Top))
  BY DEF alt_printf, counters, history, At, Put, Uttered
<1>3. PICK n, ms, fr, o, sp, i, f :
        /\ n = ids /\ ms = messages /\ fr = frames /\ o = printed /\ sp = space
        /\ i = intrusions /\ f = Top
  OBVIOUS
<1>4. Kept(n, ms, fr, o, sp, i) /\ fr # <<>> /\ f = Head(fr)
  BY <1>1, <1>2, <1>3 DEF Top
<1>5. f.at = "format" /\ f.by = "alt_printf"
  BY <1>2, <1>3
<1>6. Kept(n, ms, frames', printed', sp, i)
  <2>1. CASE f.fmt = <<>>
    <3>1. PICK d, m, said : d = f.id /\ m = ms[d] /\ said = Said(o, d)
      OBVIOUS
    <3>2. Underway(f, m, said)
      BY <1>4, <3>1, InBounds
    <3>3. f.pending = <<>>
      BY <1>5, <3>2 DEF Underway
    <3>4. Kept(n, ms, Tail(fr), o, sp, i)
      BY <1>4, <1>5, <2>1, <3>3, TopOver
    <3> QED
      BY <1>2, <1>3, <2>1, <3>4
  <2>2. CASE f.fmt # <<>>
    <3>1. PICK g, w, q : g = Spoken(f) /\ w = <<g>> \o Tail(fr) /\
            q = o \o Uttered(f.id, Words(f))
      OBVIOUS
    <3>2. Kept(n, ms, w, q, sp, i)
      BY <1>4, <1>5, <2>2, <3>1, WordsSaid
    <3> QED
      BY <1>2, <1>3, <2>2, <3>1, <3>2
  <2> QED
    BY <2>1, <2>2
<1>7. Settled'
  BY <1>1, <1>2 DEF Settled
<1> QED
  BY <1>2, <1>3, <1>6, <1>7, TextInvNext

\* The texts keep their invariant, whatever happens to them.
LEMMA TextKeeps == TextInv /\ [TextNext]_textVars => TextInv'
<1>1. ASSUME TextInv, UNCHANGED textVars PROVE TextInv'
  <2>1. Kept(ids, messages, frames, printed, space, intrusions) /\ Settled
    BY <1>1, TextInvIs
  <2>2. /\ ids' = ids /\ messages' = messages /\ frames' = frames /\ printed' = printed
        /\ space' = space
        /\ intrusions' = intrusions /\ interrupts' = interrupts
        /\ alt_system_clock_in_sec' = alt_system_clock_in_sec
    BY <1>1 DEF textVars, counters, history
  <2>3. Settled'
    BY <2>1, <2>2 DEF Settled
  <2>4. Kept(ids', messages', frames', printed', space', intrusions')
    BY <2>1, <2>2
  <2> QED
    BY <2>3, <2>4, TextInvNext
<1>2. ASSUME TextInv, TextNext PROVE TextInv'
  BY <1>2, ReadKeeps, PollKeeps, WriteKeeps, HostKeeps, SpeakKeeps, LogPrintfKeeps,
    AltPrintfKeeps, LogWriteKeeps,
     StartupKeeps, UartKeeps, ReportKeeps, ClockKeeps DEF TextNext
<1> QED
  BY <1>1, <1>2

\* They begin with it,
LEMMA TextBegins == TextInit => TextInv
<1> SUFFICES ASSUME TextInit PROVE TextInv
  OBVIOUS
<1>1. PICK n, ms, fr, o, sp, i :
        /\ n = ids /\ ms = messages /\ fr = frames /\ o = printed /\ sp = space
        /\ i = intrusions
  OBVIOUS
<1>2. n = 0 /\ ms = <<>> /\ fr = <<>> /\ o = <<>> /\ sp = DEPTH /\ i = 0
  BY <1>1 DEF TextInit
<1>3. DEPTH \in Nat /\ 0 \in 0 .. LONG - 1
  BY Longest
<1>4. Settled
  BY <1>3 DEF Settled, TextInit
<1>5. ms \in Seq(Seq(Item)) /\ Len(ms) = 0 /\ fr \in Seq(Frame) /\ Len(fr) = 0 /\
        DOMAIN fr = {}
  BY <1>2
<1>6. o \in Seq(Written) /\ DOMAIN o = {}
  BY <1>2
<1>7. Losses(o) = 0
  <2>1. {j \in DOMAIN o : o[j].lost} = {}
    BY <1>6
  <2> QED
    BY <2>1, FS_EmptySet DEF Losses
<1>8. Debt(fr, sp) = 0
  BY <1>2 DEF Debt
<1>9. Losses(o) + Debt(fr, sp) <= i
  BY <1>2, <1>7, <1>8
<1>10. sp \in 0 .. DEPTH
  BY <1>2, <1>3
<1>11. 1 .. n = {}
  BY <1>2
<1>12. Kept(n, ms, fr, o, sp, i)
  BY <1>2, <1>5, <1>6, <1>9, <1>10, <1>11 DEF Kept
<1> QED
  BY <1>1, <1>4, <1>12, TextInvIs

\* What has been said of a message is how it begins.
Remains(m, said) == \E v \in Seq(Char) : MeaningOf(m) = said \o v

\* There is something left of a message that is being told.
LEMMA LeftToSay ==
  ASSUME NEW f, NEW k, NEW m, NEW said, Telling(f, k, m, said)
  PROVE  Remains(m, said)
<1>1. f \in Frame /\ m \in Seq(Item) /\ said \in Seq(Char) /\ k \in 0 .. Len(m) /\
        Reached(f, k, m, said)
  BY DEF Telling
<1>2. PICK later : later = SubSeq(m, k + 1, Len(m))
  OBVIOUS
<1>3. PICK M \in Seq(Char) : M = MeaningOf(later)
  <2>1. Leads(m, k, later)
    BY <1>1, <1>2, LaterIs
  <2> QED
    BY <2>1 DEF Leads
<1>4. CASE f.state = "chars"
  <2>1. PICK p \in Seq(Char) : p = f.pending
    BY <1>1 DEF Frame
  <2>2. MeaningOf(m) = said \o (p \o M)
    BY <1>1, <1>2, <1>3, <1>4, <2>1 DEF Reached
  <2>3. p \o M \in Seq(Char)
    BY ConcatProperties
  <2> QED
    BY <2>2, <2>3 DEF Remains
<1>5. CASE f.state # "chars"
  <2>1. PICK item : item = m[k]
    OBVIOUS
  <2>2. k > 0 /\ MeaningOf(m) = said \o (Meaning(item) \o M)
    BY <1>1, <1>2, <1>3, <1>5, <2>1 DEF Reached
  <2>3. k \in 1 .. Len(m)
    BY <1>1, <2>2, LenProperties
  <2>4. item \in Item
    BY <1>1, <2>1, <2>3, ElementOfSeq
  <2>5. PICK x \in Seq(Char) : x = Meaning(item)
    BY <2>4, ItemStands
  <2>6. x \o M \in Seq(Char)
    BY ConcatProperties
  <2> QED
    BY <2>2, <2>5, <2>6 DEF Remains
<1> QED
  BY <1>4, <1>5

\* and it says that they are printed as they mean.
LEMMA TextIsExact == TextInv => TextExact
<1> SUFFICES ASSUME TextInv PROVE TextExact
  OBVIOUS
<1>1. Kept(ids, messages, frames, printed, space, intrusions)
  BY TextInvIs
<1>2. PICK n, ms, fr, o, sp, i :
        /\ n = ids /\ ms = messages /\ fr = frames /\ o = printed /\ sp = space
        /\ i = intrusions
  OBVIOUS
<1>3. Kept(n, ms, fr, o, sp, i)
  BY <1>1, <1>2
<1>4. /\ o \in Seq(Written) /\ fr \in Seq(Frame) /\ i \in Nat /\ ms \in Seq(Seq(Item))
      /\ Len(ms) = n /\ n \in Nat
      /\ Losses(o) + Debt(fr, sp) <= i
      /\ \A id \in 1 .. n : (\A k \in DOMAIN fr : fr[k].id # id) =>
          Said(o, id) = MeaningOf(ms[id])
      /\ \A k \in DOMAIN fr : Underway(fr[k], ms[fr[k].id], Said(o, fr[k].id))
  BY <1>3 DEF Kept
<1>5. \A id : TextOf(id) = Said(o, id)
  BY <1>2 DEF TextOf, Said
<1>6. \A id \in 1 .. n : ~Printing(id) => Said(o, id) = MeaningOf(ms[id])
  BY <1>2, <1>4 DEF Printing
<1>7. \A id \in 1 .. n : Said(o, id) \in Seq(Char) /\ ms[id] \in Seq(Item)
  <2> SUFFICES ASSUME NEW id \in 1 .. n PROVE Said(o, id) \in Seq(Char) /\
                                                ms[id] \in Seq(Item)
    OBVIOUS
  <2>1. Said(o, id) \in Seq(Char)
    BY <1>4, SaidIs
  <2>2. ms[id] \in Seq(Item)
    BY <1>4, ElementOfSeq
  <2> QED
    BY <2>1, <2>2
<1>8. \A id \in 1 .. n : IsPrefix(Said(o, id), MeaningOf(ms[id]))
  <2> SUFFICES ASSUME NEW id \in 1 .. n PROVE IsPrefix(Said(o, id), MeaningOf(ms[id]))
    OBVIOUS
  <2>1. PICK said \in Seq(Char) : said = Said(o, id)
    BY <1>7
  <2>2. CASE ~Printing(id)
    <3>1. MeaningOf(ms[id]) = said \o <<>>
      BY <1>6, <2>1, <2>2
    <3>2. <<>> \in Seq(Char)
      OBVIOUS
    <3> QED
      BY <2>1, <3>1, <3>2, Prefixed
  <2>3. CASE Printing(id)
    <3>1. PICK k \in DOMAIN fr : fr[k].id = id
      BY <1>2, <2>3 DEF Printing
    <3>2. PICK f, m : f = fr[k] /\ m = ms[id]
      OBVIOUS
    <3>3. m \in Seq(Item) /\ f \in Frame
      <4>1. k \in 1 .. Len(fr)
        BY <1>4, <3>1, LenProperties
      <4>2. fr[k] \in Frame
        BY <1>4, <4>1, ElementOfSeq
      <4> QED
        BY <1>7, <3>2, <4>2
    <3>4. Underway(f, m, said)
      BY <1>4, <2>1, <3>1, <3>2
    <3>5. PICK j \in 0 .. Len(m) : Reached(f, j, m, said)
      BY <3>4 DEF Underway
    <3>6. Telling(f, j, m, said)
      BY <2>1, <3>3, <3>5 DEF Telling
    <3>7. PICK v \in Seq(Char) : MeaningOf(m) = said \o v
      <4>1. Remains(m, said)
        BY <3>6, LeftToSay
      <4> QED
        BY <4>1 DEF Remains
    <3> QED
      BY <2>1, <3>2, <3>7, Prefixed
  <2> QED
    BY <2>2, <2>3
<1>9. Losses(o) <= i
  <2>1. Losses(o) \in Nat
    BY <1>4, LossesMore
  <2>2. PICK a \in Nat, b \in {0, 1} : a = Losses(o) /\ b = Debt(fr, sp)
    BY <2>1 DEF Debt
  <2>3. a + b <= i
    BY <1>4, <2>2
  <2>4. a <= i
    BY <1>4, <2>2, <2>3
  <2> QED
    BY <2>2, <2>4
<1>10. \A j \in DOMAIN o : o[j].char # EOT
  <2> SUFFICES ASSUME NEW j \in DOMAIN o PROVE o[j].char # EOT
    OBVIOUS
  <2>1. j \in 1 .. Len(o)
    BY <1>4, LenProperties
  <2>2. o[j] \in Written
    BY <1>4, <2>1, ElementOfSeq
  <2> QED
    BY <2>2 DEF Written, Char
<1>11. Lost <= intrusions
  BY <1>2, <1>9 DEF Lost, Losses
<1> QED
  BY <1>2, <1>5, <1>6, <1>8, <1>10, <1>11 DEF TextExact
=============================================================================
